---------------------------- MODULE Spec2Model ----------------------------
(***************************************************************************)
(* A model of swipetype-core: the dictionary store (DictionaryLoader), the *)
(* keyboard layout, the path processor, the ideal-path generator with its  *)
(* cache, the DTW scorer and the engine (GestureEngine) that orchestrates  *)
(* them.                                                                   *)
(*                                                                         *)
(* Conventions.                                                            *)
(*  - A C++ float is a fixed-point integer with unit 1/SCALE; a division   *)
(*    truncates toward zero, std::sqrt is the integer square root.         *)
(*  - std::vector is a sequence (1-based: element i of the code is         *)
(*    element i+1 here); the two rolling rows of the DTW are functions on  *)
(*    0..N-1, as in the code.                                              *)
(*  - A std::string and a byte buffer are sequences of bytes (0..255).     *)
(*  - std::sort (not stable) is a choice among all orders that are sorted  *)
(*    by the comparator.                                                   *)
(***************************************************************************)
EXTENDS Integers, Sequences, FiniteSets, TLC

(***************************************************************************)
(* Program constants (SwipeTypeTypes.h)                                    *)
(***************************************************************************)
SCALE == 1000

RESAMPLE_COUNT == 64

MIN_POINT_DISTANCE_DP == 2 * SCALE

MIN_GESTURE_POINTS == 2

DTW_BANDWIDTH_RATIO == SCALE \div 10

FREQUENCY_WEIGHT == (3 * SCALE) \div 10

MAX_MAX_CANDIDATES == 20

LENGTH_FILTER_TOLERANCE == 3 * SCALE

MAX_DTW_FLOOR == 3 * SCALE

DICT_MAGIC == 1196181828

DICT_VERSION == 1

DICT_HEADER_SIZE == 32

MAX_WORD_LENGTH == 64

SOURCE_MAIN_DICT == 1

FLT_MAX == 1000000000

ErrNONE == "NONE"

ErrDICT_NOT_FOUND == "DICT_NOT_FOUND"

ErrDICT_CORRUPT == "DICT_CORRUPT"

ErrDICT_VERSION_MISMATCH == "DICT_VERSION_MISMATCH"

ErrLAYOUT_INVALID == "LAYOUT_INVALID"

ErrPATH_TOO_SHORT == "PATH_TOO_SHORT"

ErrENGINE_NOT_INITIALIZED == "ENGINE_NOT_INITIALIZED"

(***************************************************************************)
(* Arithmetic helpers                                                      *)
(***************************************************************************)
Min(a, b) == IF b < a THEN b ELSE a

Max(a, b) == IF a < b THEN b ELSE a

Abs(a) == IF a < 0 THEN -a ELSE a

\* float division: the quotient, truncated toward zero
FDiv(a, b) == IF (a < 0) = (b < 0) THEN Abs(a) \div Abs(b) ELSE -(Abs(a) \div Abs(b))

\* float product of two fixed-point values
FMul(a, b) == FDiv(a * b, SCALE)

\* std::ceil of the fixed-point value a, as an int
Ceil(a) == -((-a) \div SCALE)

RECURSIVE IsqrtIter(_, _)
IsqrtIter(n, x) ==
    LET y == (x + n \div x) \div 2
    IN  IF y >= x THEN x ELSE IsqrtIter(n, y)

\* std::sqrt on integers: the largest r with r * r <= n
Isqrt(n) ==
    IF n < 2 THEN n
    ELSE IF n < 10000 THEN IsqrtIter(n, 100)
    ELSE IF n < 1000000 THEN IsqrtIter(n, 1000)
    ELSE IF n < 100000000 THEN IsqrtIter(n, 10000)
    ELSE IsqrtIter(n, 46340)

\* std::tolower on one byte
ToLower(c) == IF c >= 65 /\ c <= 90 THEN c + 32 ELSE c

\* a variant of LowerWord that keeps the case
SameCase(w) == w

LowerWord(w) == [i \in 1..Len(w) |-> ToLower(w[i])]

(***************************************************************************)
(* Default values of ScoringConfig and KeyboardLayout                      *)
(***************************************************************************)
DefaultScoringConfig ==
    [resampleCount |-> RESAMPLE_COUNT, minPointDistance |-> MIN_POINT_DISTANCE_DP,
     dtwBandwidthRatio |-> DTW_BANDWIDTH_RATIO, frequencyWeight |-> FREQUENCY_WEIGHT,
     maxCandidatesEvaluated |-> MAX_MAX_CANDIDATES,
     lengthFilterTolerance |-> LENGTH_FILTER_TOLERANCE, maxDTWFloor |-> MAX_DTW_FLOOR]

DefaultKeyboardLayout == [keys |-> << >>, layoutWidth |-> 0, layoutHeight |-> 0]

\* PathProcessor::Impl as constructed
NewPathProcessor ==
    [minPointDistance |-> MIN_POINT_DISTANCE_DP, resampleCount |-> RESAMPLE_COUNT]

(***************************************************************************)
(* The dictionary writer of the tests (DictionaryLoaderTest.cpp,           *)
(* makeMinimalDict): the binary form of a list of (word, frequency) pairs. *)
(***************************************************************************)
writeU16LE(val) == <<val % 256, (val \div 256) % 256>>

writeU32LE(val) ==
    <<val % 256, (val \div 256) % 256, (val \div 65536) % 256, (val \div 16777216) % 256>>

RECURSIVE EntryBytes(_, _)
EntryBytes(words, i) ==
    IF i > Len(words) THEN << >>
    ELSE <<Len(words[i].word) % 256>> \o words[i].word
             \o writeU32LE(words[i].frequency) \o <<0>> \o EntryBytes(words, i + 1)

makeMinimalDict(lang, words) ==
    LET langLen == Min(Len(lang), 18)
    IN  writeU32LE(DICT_MAGIC) \o writeU16LE(DICT_VERSION) \o writeU16LE(0)
            \o writeU32LE(Len(words)) \o writeU16LE(langLen)
            \o SubSeq(lang, 1, langLen) \o [k \in 1..(18 - langLen) |-> 0]
            \o EntryBytes(words, 1)

(***************************************************************************)
(* The inputs the calls are tried with.                                    *)
(***************************************************************************)
Key(cp, x, y) == [codePoint |-> cp, centerX |-> x * SCALE, centerY |-> y * SCALE]

\* a 2x2 keyboard  a b / c d  and the same keyboard with b and c exchanged
LayoutA ==
    [keys |-> <<Key(97, 5, 5), Key(98, 25, 5), Key(99, 5, 25), Key(100, 25, 25)>>,
     layoutWidth |-> 30 * SCALE, layoutHeight |-> 30 * SCALE]

LayoutB ==
    [keys |-> <<Key(97, 5, 5), Key(98, 5, 25), Key(99, 25, 5), Key(100, 25, 25)>>,
     layoutWidth |-> 30 * SCALE, layoutHeight |-> 30 * SCALE]

\* keys but no character key
LayoutNoChar ==
    [keys |-> <<Key(-1, 5, 5)>>, layoutWidth |-> 30 * SCALE, layoutHeight |-> 30 * SCALE]

\* character keys on a keyboard of no width, and of a negative height
LayoutNoWidth == [LayoutA EXCEPT !.layoutWidth = 0]

LayoutNegativeHeight == [LayoutB EXCEPT !.layoutHeight = -30 * SCALE]

ValidLayouts == {LayoutA, LayoutB}

Layouts ==
    ValidLayouts \cup {DefaultKeyboardLayout, LayoutNoChar, LayoutNoWidth,
                       LayoutNegativeHeight}

Word(w) == [word |-> w.word, frequency |-> w.frequency, flags |-> 0]

\* "abd" and "abbd" trace the same keys and have the same frequency
WordsTie ==
    <<[word |-> <<97, 98, 100>>, frequency |-> 100],
      [word |-> <<97, 98, 98, 100>>, frequency |-> 100],
      [word |-> <<97, 99, 100>>, frequency |-> 60]>>

\* a dictionary whose largest frequency is 0
WordsZero ==
    <<[word |-> <<97, 100>>, frequency |-> 0],
      [word |-> <<65, 66, 68>>, frequency |-> 0]>>

\* the cache keys of the words above
InputWords ==
    {LowerWord(WordsTie[i].word) : i \in 1..Len(WordsTie)}
        \cup {LowerWord(WordsZero[i].word) : i \in 1..Len(WordsZero)}

LangEn == <<101, 110>>

BufTie == makeMinimalDict(LangEn, WordsTie)

BufZero == makeMinimalDict(LangEn, WordsZero)

\* version 2 in the header
BufBadVersion == [BufTie EXCEPT ![5] = 2]

\* the last entry cut short: two entries are parsed before the error
BufTruncated == SubSeq(BufTie, 1, Len(BufTie) - 3)

ValidBuffers == {BufTie, BufZero}

Buffers == ValidBuffers \cup {BufBadVersion, BufTruncated}

FileMissing == [exists |-> FALSE, readable |-> FALSE, bytes |-> << >>]

FileUnreadable == [exists |-> TRUE, readable |-> FALSE, bytes |-> << >>]

FileOf(bytes) == [exists |-> TRUE, readable |-> TRUE, bytes |-> bytes]

ValidFiles == {FileOf(BufTie)}

Files == ValidFiles \cup {FileMissing, FileUnreadable, FileOf(SubSeq(BufTie, 1, 8))}

\* every field differs from its default
ConfigAlt ==
    [resampleCount |-> 32, minPointDistance |-> 12 * SCALE,
     dtwBandwidthRatio |-> SCALE \div 2, frequencyWeight |-> (3 * SCALE) \div 2,
     maxCandidatesEvaluated |-> 1, lengthFilterTolerance |-> SCALE \div 2,
     maxDTWFloor |-> 0]

Configs == {DefaultScoringConfig, ConfigAlt}

Pt(x, y, t) == [x |-> x * SCALE, y |-> y * SCALE, timestamp |-> t]

\* along the top row and down the right column
PathRightDown == <<Pt(5, 5, 0), Pt(15, 5, 10), Pt(25, 5, 20), Pt(25, 15, 30), Pt(25, 25, 40)>>

\* down the left column and along the bottom row
PathDownRight == <<Pt(5, 5, 0), Pt(5, 15, 10), Pt(5, 25, 20), Pt(15, 25, 30), Pt(25, 25, 40)>>

ValidRawPaths == {PathRightDown, PathDownRight}

RawPaths == ValidRawPaths \cup {<< >>, <<Pt(5, 5, 0)>>}

MaxCandidatesInputs == {-1, 0, 1, 2, 21}

(***************************************************************************)
(* KeyboardLayout (KeyboardLayout.h, AdjacencyMap.cpp)                     *)
(* A key is [codePoint, centerX, centerY]; a layout is                     *)
(* [keys, layoutWidth, layoutHeight].  Key indexes are those of the code   *)
(* (0-based, -1 for none).                                                 *)
(***************************************************************************)
isCharacterKey(key) == key.codePoint >= 0

euclidean(x1, y1, x2, y2) ==
    LET dx == x2 - x1
        dy == y2 - y1
    IN  Isqrt(dx * dx + dy * dy)

RECURSIVE NearestFrom(_, _, _, _, _, _)
NearestFrom(keys, x, y, i, bestIndex, bestDist) ==
    IF i > Len(keys) THEN bestIndex
    ELSE IF ~isCharacterKey(keys[i]) THEN NearestFrom(keys, x, y, i + 1, bestIndex, bestDist)
    ELSE LET dist == euclidean(x, y, keys[i].centerX, keys[i].centerY)
         IN  IF dist < bestDist
             THEN NearestFrom(keys, x, y, i + 1, i - 1, dist)
             ELSE NearestFrom(keys, x, y, i + 1, bestIndex, bestDist)

findNearestKey(keyboardLayout, x, y) == NearestFrom(keyboardLayout.keys, x, y, 1, -1, FLT_MAX)

RECURSIVE KeyByCodePointFrom(_, _, _)
KeyByCodePointFrom(keys, searchCp, i) ==
    IF i > Len(keys) THEN -1
    ELSE IF ToLower(keys[i].codePoint) = searchCp THEN i - 1
    ELSE KeyByCodePointFrom(keys, searchCp, i + 1)

findKeyByCodePoint(keyboardLayout, codePoint) ==
    KeyByCodePointFrom(keyboardLayout.keys, ToLower(codePoint), 1)

isValid(keyboardLayout) ==
    /\ Len(keyboardLayout.keys) > 0
    /\ keyboardLayout.layoutWidth > 0
    /\ keyboardLayout.layoutHeight > 0
    /\ \E i \in 1..Len(keyboardLayout.keys) : isCharacterKey(keyboardLayout.keys[i])

(***************************************************************************)
(* Paths.  A raw point is [x, y, timestamp]; a normalized point [x, y, t]. *)
(* A GesturePath is [points, startKeyIndex, endKeyIndex].                  *)
(***************************************************************************)
EmptyGesturePath == [points |-> <<>>, startKeyIndex |-> -1, endKeyIndex |-> -1]

PathIsValid(path) == Len(path.points) = 64

\* a variant of RawIsEmpty that lets a one-point path through
RawHasNoPoints(points) == Len(points) < 1

RawIsEmpty(points) == Len(points) < MIN_GESTURE_POINTS

\* a variant of pointDistance that counts a vertical offset in one direction only
pointDistanceOneSided(a, b) == euclidean(a.x, Max(a.y, b.y), b.x, b.y)

\* a variant of pointDistance that counts the time offset as well
pointDistanceWithTime(a, b) ==
    euclidean(a.x, a.y, b.x, b.y) + (IF "t" \in DOMAIN a THEN Abs(a.t - b.t) ELSE 0)

pointDistance(a, b) == euclidean(a.x, a.y, b.x, b.y)

RECURSIVE DedupFrom(_, _, _, _)
DedupFrom(points, minPointDistance, i, result) ==
    IF i >= Len(points) THEN Append(result, points[Len(points)])
    ELSE IF pointDistance(result[Len(result)], points[i]) >= minPointDistance
         THEN DedupFrom(points, minPointDistance, i + 1, Append(result, points[i]))
         ELSE DedupFrom(points, minPointDistance, i + 1, result)

deduplicate(points, minPointDistance) ==
    IF Len(points) <= 2 THEN points
    ELSE DedupFrom(points, minPointDistance, 2, <<points[1]>>)

\* the sum of the segment lengths lo..hi (segment k joins points k-1 and k);
\* the range is halved so that the evaluation depth stays logarithmic
RECURSIVE ArcLengthRange(_, _, _)
ArcLengthRange(points, lo, hi) ==
    IF lo > hi THEN 0
    ELSE IF lo = hi THEN pointDistance(points[lo - 1], points[lo])
    ELSE LET mid == (lo + hi) \div 2
         IN  ArcLengthRange(points, lo, mid) + ArcLengthRange(points, mid + 1, hi)

computeArcLength(points) == ArcLengthRange(points, 2, Len(points))

InsertAt(s, i, e) == SubSeq(s, 1, i - 1) \o <<e>> \o SubSeq(s, i, Len(s))

\* result filled with copies of p up to count points, then cut to count points
FillTo(result, count, p) ==
    [k \in 1..count |-> IF k <= Len(result) THEN result[k] ELSE p]

\* one pass of the while loop of resample on s = [pts, i, D, result]
\* (s.i is the code's index i plus one); the state is left alone once the
\* loop condition is false
ResampleStep(s, interval, count) ==
    IF ~(s.i <= Len(s.pts) /\ Len(s.result) < count - 1) THEN s
    ELSE LET a  == s.pts[s.i - 1]
             b  == s.pts[s.i]
             dx == b.x - a.x
             dy == b.y - a.y
             d  == Isqrt(dx * dx + dy * dy)
         IN  IF s.D + d >= interval
             THEN LET num   == interval - s.D
                      newPt == [x |-> a.x + FDiv(num * dx, d),
                                y |-> a.y + FDiv(num * dy, d),
                                timestamp |-> a.timestamp
                                    + FDiv(num * (b.timestamp - a.timestamp), d)]
                  IN  [pts |-> InsertAt(s.pts, s.i, newPt), i |-> s.i + 1, D |-> 0,
                       result |-> Append(s.result, newPt)]
             ELSE [s EXCEPT !.i = s.i + 1, !.D = s.D + d]

\* the while loop, run for at most n passes.  The passes are split in
\* halves so that the evaluation depth stays logarithmic in n.
RECURSIVE ResampleLoop(_, _, _, _)
ResampleLoop(s, n, interval, count) ==
    IF ~(s.i <= Len(s.pts) /\ Len(s.result) < count - 1) \/ n = 0 THEN s
    ELSE IF n = 1 THEN ResampleStep(s, interval, count)
    ELSE ResampleLoop(ResampleLoop(s, n \div 2, interval, count),
                      n - n \div 2, interval, count)

\* every pass advances i and at most count - 2 points are inserted, so
\* Len(points) + count passes run the loop to its end
resample(points, resampleCount) ==
    IF Len(points) < 2 THEN points
    ELSE LET totalLen == computeArcLength(points)
         IN  IF totalLen < 1
             THEN [k \in 1..resampleCount |-> points[1]]
             ELSE LET s == ResampleLoop([pts |-> points, i |-> 2, D |-> 0,
                                         result |-> <<points[1]>>],
                                        Len(points) + resampleCount,
                                        FDiv(totalLen, resampleCount - 1), resampleCount)
                  IN  FillTo(s.result, resampleCount, s.pts[Len(s.pts)])

SeqMin(points, f) ==
    CHOOSE m \in {points[k][f] : k \in 1..Len(points)} :
        \A k \in 1..Len(points) : m <= points[k][f]

SeqMax(points, f) ==
    CHOOSE m \in {points[k][f] : k \in 1..Len(points)} :
        \A k \in 1..Len(points) : m >= points[k][f]

\* a variant of normalizeBoundingBox that scales without moving the box to the origin
normalizeBoundingBoxUnshifted(points) ==
    IF Len(points) = 0 THEN EmptyGesturePath
    ELSE LET width  == SeqMax(points, "x") - SeqMin(points, "x")
             height == SeqMax(points, "y") - SeqMin(points, "y")
             scale  == Max(width, height)
             firstTs == points[1].timestamp
             tsRange == points[Len(points)].timestamp - firstTs
             half == SCALE \div 2
         IN  IF width < 1 /\ height < 1
             THEN [points |-> [k \in 1..Len(points) |-> [x |-> half, y |-> half, t |-> half]],
                   startKeyIndex |-> -1, endKeyIndex |-> -1]
             ELSE [points |-> [k \in 1..Len(points) |->
                                 [x |-> FDiv(points[k].x * SCALE, scale),
                                  y |-> FDiv(points[k].y * SCALE, scale),
                                  t |-> IF tsRange > 0
                                        THEN FDiv((points[k].timestamp - firstTs) * SCALE, tsRange)
                                        ELSE half]],
                   startKeyIndex |-> -1, endKeyIndex |-> -1]

normalizeBoundingBox(points) ==
    IF Len(points) = 0 THEN EmptyGesturePath
    ELSE LET minX == SeqMin(points, "x")
             maxX == SeqMax(points, "x")
             minY == SeqMin(points, "y")
             maxY == SeqMax(points, "y")
             width  == maxX - minX
             height == maxY - minY
             scale  == Max(width, height)
             firstTs == points[1].timestamp
             tsRange == points[Len(points)].timestamp - firstTs
             half == SCALE \div 2
         IN  IF width < 1 /\ height < 1
             THEN [points |-> [k \in 1..Len(points) |-> [x |-> half, y |-> half, t |-> half]],
                   startKeyIndex |-> -1, endKeyIndex |-> -1]
             ELSE [points |-> [k \in 1..Len(points) |->
                                 [x |-> FDiv((points[k].x - minX) * SCALE, scale),
                                  y |-> FDiv((points[k].y - minY) * SCALE, scale),
                                  t |-> IF tsRange > 0
                                        THEN FDiv((points[k].timestamp - firstTs) * SCALE, tsRange)
                                        ELSE half]],
                   startKeyIndex |-> -1, endKeyIndex |-> -1]

\* PathProcessor::normalize; pp is the processor's Impl (minPointDistance, resampleCount)
normalize(pp, raw, keyboardLayout) ==
    IF RawIsEmpty(raw) THEN EmptyGesturePath
    ELSE LET deduped == deduplicate(raw, pp.minPointDistance)
         IN  IF Len(deduped) < 2 THEN EmptyGesturePath
             ELSE LET path == normalizeBoundingBox(resample(deduped, pp.resampleCount))
                  IN  [path EXCEPT
                         !.startKeyIndex = findNearestKey(keyboardLayout, raw[1].x, raw[1].y),
                         !.endKeyIndex   = findNearestKey(keyboardLayout, raw[Len(raw)].x, raw[Len(raw)].y)]

\* normalize is a pure function of its arguments: its values on the inputs
\* of this model are computed once and looked up afterwards
NormalizedPaths ==
    [a \in {NewPathProcessor} \X ValidRawPaths \X ValidLayouts |->
        normalize(a[1], a[2], a[3])] @@ << >>

\* the value a table holds for a key, and the computed value where it has none
TableAt(table, key, computed) == IF key \in DOMAIN table THEN table[key] ELSE computed

\* the values of a table
TableValues(table) == {table[k] : k \in DOMAIN table}

normalizeOf(pp, raw, keyboardLayout) ==
    TableAt(NormalizedPaths, <<pp, raw, keyboardLayout>>, normalize(pp, raw, keyboardLayout))

(***************************************************************************)
(* IdealPathGenerator (IdealPathGenerator.cpp).  The generator's state is  *)
(* [layout, layoutSet, cache]; the cache is a function from lower-cased    *)
(* words to paths.                                                         *)
(***************************************************************************)
\* a variant of KeyPointsFrom that keeps a key equal to the key before
RECURSIVE KeyPointsKeepRepeats(_, _, _, _, _)
KeyPointsKeepRepeats(keyboardLayout, word, i, prevKeyIdx, keyPoints) ==
    IF i > Len(word) THEN keyPoints
    ELSE LET keyIdx == findKeyByCodePoint(keyboardLayout, ToLower(word[i]))
         IN  IF keyIdx < 0
             THEN KeyPointsKeepRepeats(keyboardLayout, word, i + 1, prevKeyIdx, keyPoints)
             ELSE KeyPointsKeepRepeats(keyboardLayout, word, i + 1, keyIdx,
                      Append(keyPoints,
                             [x |-> keyboardLayout.keys[keyIdx + 1].centerX,
                              y |-> keyboardLayout.keys[keyIdx + 1].centerY,
                              timestamp |-> Len(keyPoints) * 100]))

\* the key centres of a word: one point per kept key, 100 ms apart
RECURSIVE KeyPointsFrom(_, _, _, _, _)
KeyPointsFrom(keyboardLayout, word, i, prevKeyIdx, keyPoints) ==
    IF i > Len(word) THEN keyPoints
    ELSE LET keyIdx == findKeyByCodePoint(keyboardLayout, ToLower(word[i]))
         IN  IF keyIdx < 0 \/ keyIdx = prevKeyIdx
             THEN KeyPointsFrom(keyboardLayout, word, i + 1, prevKeyIdx, keyPoints)
             ELSE KeyPointsFrom(keyboardLayout, word, i + 1, keyIdx,
                      Append(keyPoints,
                             [x |-> keyboardLayout.keys[keyIdx + 1].centerX,
                              y |-> keyboardLayout.keys[keyIdx + 1].centerY,
                              timestamp |-> Len(keyPoints) * 100]))

RECURSIVE FirstMappable(_, _, _, _)
FirstMappable(keyboardLayout, word, i, step) ==
    IF i < 1 \/ i > Len(word) THEN -1
    ELSE IF findKeyByCodePoint(keyboardLayout, ToLower(word[i])) >= 0 THEN ToLower(word[i])
    ELSE FirstMappable(keyboardLayout, word, i + step, step)

generate(gen, word) ==
    IF ~gen.layoutSet THEN EmptyGesturePath
    ELSE LET keyPoints == KeyPointsFrom(gen.layout, word, 1, -1, <<>>)
         IN  IF Len(keyPoints) < 2 THEN EmptyGesturePath
             ELSE LET path == normalizeBoundingBox(resample(keyPoints, RESAMPLE_COUNT))
                      cp0  == FirstMappable(gen.layout, word, 1, 1)
                      cpN  == FirstMappable(gen.layout, word, Len(word), -1)
                  IN  [path EXCEPT
                         !.startKeyIndex = IF cp0 >= 0 THEN findKeyByCodePoint(gen.layout, cp0) ELSE -1,
                         !.endKeyIndex   = IF cpN >= 0 THEN findKeyByCodePoint(gen.layout, cpN) ELSE -1]

\* the values of generate on the words and layouts of this model, computed once
IdealPaths ==
    [a \in ValidLayouts \X InputWords |->
        generate([layout |-> a[1], layoutSet |-> TRUE, cache |-> << >>], a[2])] @@ << >>

generateOf(gen, word) ==
    TableAt(IF gen.layoutSet THEN IdealPaths ELSE << >>, <<gen.layout, word>>,
            generate(gen, word))

\* a variant of setLayout that keeps the cached paths
setLayoutKeepsCache(gen, keyboardLayout) ==
    [gen EXCEPT !.layout = keyboardLayout, !.layoutSet = TRUE]

setLayout(gen, keyboardLayout) == [layout |-> keyboardLayout, layoutSet |-> TRUE, cache |-> << >>]

\* getIdealPath: the pair <<path returned, generator afterwards>>
\* cache[key] = path; return path
CachePath(gen, key, path) == <<path, [gen EXCEPT !.cache = (key :> path) @@ gen.cache]>>

getIdealPath(gen, word) ==
    IF ~gen.layoutSet THEN <<EmptyGesturePath, gen>>
    ELSE LET key == LowerWord(word)
         IN  IF key \in DOMAIN gen.cache
             THEN <<gen.cache[key], gen>>
             ELSE CachePath(gen, key, generateOf(gen, key))

\* a variant of clearCache that clears nothing
keepCache(gen) == gen

clearCache(gen) == [gen EXCEPT !.cache = << >>]

cacheSize(gen) == Cardinality(DOMAIN gen.cache)

(***************************************************************************)
(* Scorer (Scorer.cpp)                                                     *)
(***************************************************************************)
\* the Sakoe-Chiba band width of the configured ratio
\* a variant of BandWidth without the clamp to at least 1
BandWidthUnclamped(dtwBandwidthRatio) == Ceil(dtwBandwidthRatio * RESAMPLE_COUNT)

BandWidth(dtwBandwidthRatio) ==
    LET W == Ceil(dtwBandwidthRatio * RESAMPLE_COUNT)
    IN  IF W < 1 THEN 1 ELSE W

\* The loops of computeDTWDistance.  A loop is its state (the row being
\* filled and the loop index) and one pass; it is run by halving the number
\* of passes left, so that the evaluation depth stays logarithmic.

\* one pass of the first-row loop on s = [row, j]
FirstRowStep(g, p, s) ==
    [row |-> IF s.row[s.j - 1] < FLT_MAX
             THEN [s.row EXCEPT ![s.j] = s.row[s.j - 1] + pointDistance(g[1], p[s.j + 1])]
             ELSE s.row,
     j |-> s.j + 1]

RECURSIVE FirstRowLoop(_, _, _, _, _)
FirstRowLoop(g, p, s, jLast, n) ==
    IF s.j > jLast \/ n = 0 THEN s
    ELSE IF n = 1 THEN FirstRowStep(g, p, s)
    ELSE FirstRowLoop(g, p, FirstRowLoop(g, p, s, jLast, n \div 2), jLast, n - n \div 2)

\* a variant of FillRowStep that leaves out the diagonal predecessor
FillRowStepNoDiagonal(g, p, prev, i, s) ==
    LET j == s.j
        curr == s.curr
        cost == pointDistance(g[i + 1], p[j + 1])
        b1 == IF prev[j] < FLT_MAX THEN Min(FLT_MAX, prev[j]) ELSE FLT_MAX
        best == IF j > 0 /\ curr[j - 1] < FLT_MAX THEN Min(b1, curr[j - 1]) ELSE b1
    IN  [curr |-> [curr EXCEPT ![j] = IF best < FLT_MAX THEN cost + best ELSE FLT_MAX],
         j |-> j + 1]

\* one pass of the inner loop of row i on s = [curr, j]
FillRowStep(g, p, prev, i, s) ==
    LET j == s.j
        curr == s.curr
        cost == pointDistance(g[i + 1], p[j + 1])
        b1 == IF prev[j] < FLT_MAX THEN Min(FLT_MAX, prev[j]) ELSE FLT_MAX
        b2 == IF j > 0 /\ curr[j - 1] < FLT_MAX THEN Min(b1, curr[j - 1]) ELSE b1
        best == IF j > 0 /\ prev[j - 1] < FLT_MAX THEN Min(b2, prev[j - 1]) ELSE b2
    IN  [curr |-> [curr EXCEPT ![j] = IF best < FLT_MAX THEN cost + best ELSE FLT_MAX],
         j |-> j + 1]

RECURSIVE FillRowLoop(_, _, _, _, _, _, _)
FillRowLoop(g, p, prev, i, s, jMax, n) ==
    IF s.j > jMax \/ n = 0 THEN s
    ELSE IF n = 1 THEN FillRowStep(g, p, prev, i, s)
    ELSE FillRowLoop(g, p, prev, i, FillRowLoop(g, p, prev, i, s, jMax, n \div 2),
                     jMax, n - n \div 2)

\* one pass of the outer loop on s = [prev, i]: row i is filled and swapped
\* into dtw_prev
RowStep(g, p, s, N, W) ==
    LET jMin == Max(0, s.i - W)
        jMax == Min(N - 1, s.i + W)
    IN  [prev |-> FillRowLoop(g, p, s.prev, s.i,
                              [curr |-> [j \in 0..(N - 1) |-> FLT_MAX], j |-> jMin],
                              jMax, N).curr,
         i |-> s.i + 1]

RECURSIVE RowLoop(_, _, _, _, _, _)
RowLoop(g, p, s, N, W, n) ==
    IF s.i >= N \/ n = 0 THEN s
    ELSE IF n = 1 THEN RowStep(g, p, s, N, W)
    ELSE RowLoop(g, p, RowLoop(g, p, s, N, W, n \div 2), N, W, n - n \div 2)

computeDTWDistance(scorerConfig, gesture, idealPath) ==
    LET N == RESAMPLE_COUNT
        g == gesture.points
        p == idealPath.points
    IN  IF Len(g) # N \/ Len(p) # N THEN FLT_MAX
        ELSE LET W == BandWidth(scorerConfig.dtwBandwidthRatio)
                 row0 == [[j \in 0..(N - 1) |-> FLT_MAX] EXCEPT ![0] = pointDistance(g[1], p[1])]
                 first == FirstRowLoop(g, p, [row |-> row0, j |-> 1], Min(W, N - 1), N).row
                 last == RowLoop(g, p, [prev |-> first, i |-> 1], N, W, N).prev
                 raw  == last[N - 1]
             IN  IF raw >= FLT_MAX THEN FLT_MAX ELSE FDiv(raw, N)

\* a variant of computeConfidence in which frequency lowers the confidence
computeConfidenceInverted(scorerConfig, dtwDistance, maxDTWDistance, frequency, maxFrequency) ==
    LET normalizedDTW == IF maxDTWDistance > 0 /\ dtwDistance < FLT_MAX
                         THEN Min(SCALE, FDiv(dtwDistance * SCALE, maxDTWDistance))
                         ELSE SCALE
        normalizedFreq == IF maxFrequency > 0
                          THEN Min(SCALE, FDiv(frequency * SCALE, maxFrequency))
                          ELSE 0
        alpha == scorerConfig.frequencyWeight
        finalScore == FMul(SCALE - alpha, normalizedDTW) + FMul(alpha, normalizedFreq)
    IN  SCALE - Max(0, Min(SCALE, finalScore))

computeConfidence(scorerConfig, dtwDistance, maxDTWDistance, frequency, maxFrequency) ==
    LET normalizedDTW == IF maxDTWDistance > 0 /\ dtwDistance < FLT_MAX
                         THEN Min(SCALE, FDiv(dtwDistance * SCALE, maxDTWDistance))
                         ELSE SCALE
        normalizedFreq == IF maxFrequency > 0
                          THEN Min(SCALE, FDiv(frequency * SCALE, maxFrequency))
                          ELSE 0
        alpha == scorerConfig.frequencyWeight
        finalScore == FMul(SCALE - alpha, normalizedDTW)
                          + FMul(alpha, SCALE - normalizedFreq)
    IN  SCALE - Max(0, Min(SCALE, finalScore))

\* the values of computeDTWDistance on the paths of this model, computed once
DTWDistances ==
    [a \in Configs \X TableValues(NormalizedPaths) \X TableValues(IdealPaths) |->
        computeDTWDistance(a[1], a[2], a[3])] @@ << >>

computeDTWDistanceOf(scorerConfig, gesture, idealPath) ==
    TableAt(DTWDistances, <<scorerConfig, gesture, idealPath>>,
            computeDTWDistance(scorerConfig, gesture, idealPath))

(***************************************************************************)
(* DictionaryLoader (DictionaryLoader.cpp).  The store is the record       *)
(* [entries, header, maxFrequency, lastError, loaded]; of an ErrorInfo     *)
(* only the code is kept.  A buffer is a sequence of bytes; offset k of    *)
(* the code is element k+1.                                                *)
(***************************************************************************)
readU16LE(buf, offset) == buf[offset + 1] + buf[offset + 2] * 256

\* a variant of readU32LE that reads the bytes in big-endian order
readU32BE(buf, offset) ==
    buf[offset + 4] + buf[offset + 3] * 256 + buf[offset + 2] * 65536
        + buf[offset + 1] * 16777216

readU32LE(buf, offset) ==
    buf[offset + 1] + buf[offset + 2] * 256 + buf[offset + 3] * 65536
        + buf[offset + 4] * 16777216

DictionaryHeader ==
    [magic |-> 0, version |-> 0, flags |-> 0, entryCount |-> 0,
     languageTag |-> << >>]

NewDictionaryLoader ==
    [entries |-> << >>, header |-> DictionaryHeader, maxFrequency |-> 0,
     lastError |-> ErrNONE, loaded |-> FALSE]

\* One iteration of the entry loop; s = [pos, i, entries, maxFrequency, err].
ParseEntryStep(data, s) ==
    LET size == Len(data)
        corrupt == [s EXCEPT !.err = ErrDICT_CORRUPT]
    IN  IF s.pos + 1 > size THEN corrupt
        ELSE LET wordLen == data[s.pos + 1]
                 pos1 == s.pos + 1
             IN  IF wordLen > MAX_WORD_LENGTH THEN corrupt
                 ELSE IF pos1 + wordLen + 4 + 1 > size THEN corrupt
                 ELSE LET pos2 == pos1 + wordLen
                          entry == [word |-> SubSeq(data, pos1 + 1, pos2),
                                    frequency |-> readU32LE(data, pos2),
                                    flags |-> data[pos2 + 5]]
                      IN  [pos |-> pos2 + 5, i |-> s.i + 1,
                           entries |-> Append(s.entries, entry),
                           maxFrequency |-> Max(s.maxFrequency, entry.frequency),
                           err |-> s.err]

RECURSIVE ParseEntryLoop(_, _, _, _)
ParseEntryLoop(data, s, entryCount, n) ==
    IF ~(s.err = ErrNONE /\ s.i < entryCount) \/ n = 0 THEN s
    ELSE IF n = 1 THEN ParseEntryStep(data, s)
    ELSE ParseEntryLoop(data, ParseEntryLoop(data, s, entryCount, n \div 2),
                        entryCount, n - n \div 2)

\* Returns [ok, store].  The loaded flag is only ever set, never cleared here.
parseFromBuffer(store, data) ==
    LET size == Len(data)
        st0 == [store EXCEPT !.lastError = ErrNONE, !.entries = << >>,
                             !.header = DictionaryHeader, !.maxFrequency = 0]
    IN  IF size < DICT_HEADER_SIZE
        THEN [ok |-> FALSE, store |-> [st0 EXCEPT !.lastError = ErrDICT_CORRUPT]]
        ELSE LET langLen == readU16LE(data, 12)
                 header == [magic |-> readU32LE(data, 0),
                            version |-> readU16LE(data, 4),
                            flags |-> readU16LE(data, 6),
                            entryCount |-> readU32LE(data, 8),
                            languageTag |->
                                IF langLen > 0 /\ 14 + langLen <= DICT_HEADER_SIZE
                                THEN SubSeq(data, 15, 14 + langLen) ELSE << >>]
                 st1 == [st0 EXCEPT !.header = header]
             IN  IF header.magic # DICT_MAGIC
                 THEN [ok |-> FALSE, store |-> [st1 EXCEPT !.lastError = ErrDICT_CORRUPT]]
                 ELSE IF header.version # DICT_VERSION
                 THEN [ok |-> FALSE,
                       store |-> [st1 EXCEPT !.lastError = ErrDICT_VERSION_MISMATCH]]
                 ELSE LET s == ParseEntryLoop(data,
                                   [pos |-> DICT_HEADER_SIZE, i |-> 0, entries |-> << >>,
                                    maxFrequency |-> 0, err |-> ErrNONE],
                                   header.entryCount, header.entryCount)
                          st2 == [st1 EXCEPT !.entries = s.entries,
                                             !.maxFrequency = s.maxFrequency]
                      IN  IF s.err # ErrNONE
                          THEN [ok |-> FALSE, store |-> [st2 EXCEPT !.lastError = s.err]]
                          ELSE [ok |-> TRUE, store |-> [st2 EXCEPT !.loaded = TRUE]]

unload(store) ==
    [store EXCEPT !.entries = << >>, !.header = DictionaryHeader,
                  !.maxFrequency = 0, !.loaded = FALSE, !.lastError = ErrNONE]

\* a variant of load that parses whatever it finds at the path
loadWithoutOpenCheck(store, file) == parseFromBuffer(unload(store), file.bytes)

\* A file is [exists, readable, bytes]: what open() and read() meet at a path.
load(store, file) ==
    LET st0 == unload(store)
    IN  IF ~file.exists
        THEN [ok |-> FALSE, store |-> [st0 EXCEPT !.lastError = ErrDICT_NOT_FOUND]]
        ELSE IF ~file.readable
        THEN [ok |-> FALSE, store |-> [st0 EXCEPT !.lastError = ErrDICT_CORRUPT]]
        ELSE parseFromBuffer(st0, file.bytes)

loadFromMemory(store, data) == parseFromBuffer(unload(store), data)

isLoaded(store) == store.loaded

getHeader(store) == store.header

getEntryCount(store) == Len(store.entries)

getMaxFrequency(store) == store.maxFrequency

getAllEntries(store) == IF store.loaded THEN store.entries ELSE << >>

getEntriesStartingWith(store, startChar) ==
    IF ~store.loaded THEN << >>
    ELSE SelectSeq(store.entries,
             LAMBDA e : Len(e.word) > 0 /\ ToLower(e.word[1]) = ToLower(startChar))

getEntriesWithStartEnd(store, startChar, endChar) ==
    IF ~store.loaded THEN << >>
    ELSE SelectSeq(store.entries,
             LAMBDA e : /\ Len(e.word) > 0
                        /\ ToLower(e.word[1]) = ToLower(startChar)
                        /\ ToLower(e.word[Len(e.word)]) = ToLower(endChar))

\* The found entry in a one-element sequence, << >> for nullptr.
lookup(store, word) ==
    IF ~store.loaded \/ Len(word) = 0 THEN << >>
    ELSE LET hits == SelectSeq(store.entries,
                         LAMBDA e : LowerWord(e.word) = LowerWord(word))
         IN  IF Len(hits) = 0 THEN << >> ELSE <<hits[1]>>

dictGetLastError(store) == store.lastError

(***************************************************************************)
(* GestureEngine (GestureEngine.cpp): the recognition pipeline as          *)
(* operators on the engine's parts.                                        *)
(***************************************************************************)
RECURSIVE TransitionsFrom(_, _, _, _, _)
TransitionsFrom(keyboardLayout, points, i, prevKey, transitions) ==
    IF i > Len(points) THEN transitions
    ELSE LET key == findNearestKey(keyboardLayout, points[i].x, points[i].y)
         IN  IF key >= 0 /\ key # prevKey
             THEN TransitionsFrom(keyboardLayout, points, i + 1, key, transitions + 1)
             ELSE TransitionsFrom(keyboardLayout, points, i + 1, prevKey, transitions)

estimateWordLengthByKeyTransitions(keyboardLayout, rawPath) ==
    IF Len(rawPath) < 2 THEN SCALE
    ELSE Max(SCALE, TransitionsFrom(keyboardLayout, rawPath, 1, -1, 0) * SCALE)

\* Step 2: the character of a key index, 0 when there is none
KeyChar(keyboardLayout, keyIndex) ==
    LET cp == keyboardLayout.keys[keyIndex + 1].codePoint
    IN  IF cp >= 97 /\ cp <= 122 THEN cp
        ELSE IF cp >= 65 /\ cp <= 90 THEN ToLower(cp)
        ELSE 0

StartEndChars(keyboardLayout, normalizedPath) ==
    IF /\ normalizedPath.startKeyIndex >= 0
       /\ normalizedPath.startKeyIndex < Len(keyboardLayout.keys)
       /\ normalizedPath.endKeyIndex >= 0
       /\ normalizedPath.endKeyIndex < Len(keyboardLayout.keys)
    THEN LET startChar == KeyChar(keyboardLayout, normalizedPath.startKeyIndex)
             endChar == KeyChar(keyboardLayout, normalizedPath.endKeyIndex)
         IN  [startChar |-> startChar, endChar |-> endChar,
              hasStartEnd |-> (startChar # 0 /\ endChar # 0)]
    ELSE [startChar |-> 0, endChar |-> 0, hasStartEnd |-> FALSE]

\* a variant of CandidateEntries that does not look at the end key
CandidateEntriesByStart(store, se) ==
    LET byStart == IF se.startChar # 0
                   THEN getEntriesStartingWith(store, se.startChar)
                   ELSE << >>
    IN  IF Len(byStart) = 0 THEN getAllEntries(store) ELSE byStart

\* Step 3: candidate filtering by start/end key, then start key, then all
CandidateEntries(store, se) ==
    LET byBoth == IF se.hasStartEnd
                  THEN getEntriesWithStartEnd(store, se.startChar, se.endChar)
                  ELSE << >>
        byStart == IF Len(byBoth) = 0 /\ se.startChar # 0
                   THEN getEntriesStartingWith(store, se.startChar)
                   ELSE byBoth
    IN  IF Len(byStart) = 0 THEN getAllEntries(store) ELSE byStart

\* a variant of LengthFilter that filters nothing
LengthFilterKeepsAll(dictEntries, estimatedLen, tol) == dictEntries

\* the word-length filter with its fall-back to the unfiltered list
LengthFilter(dictEntries, estimatedLen, tol) ==
    LET filtered == SelectSeq(dictEntries,
                        LAMBDA e : Abs(Len(e.word) * SCALE - estimatedLen) <= tol)
    IN  IF Len(filtered) = 0 THEN dictEntries ELSE filtered

\* Step 4: one iteration of the scoring loop; s = [gen, scored, k]
\* r = <<ideal path of the entry, generator afterwards>>
ScoreEntry(sc, normalizedPath, entry, s, r) ==
    IF ~PathIsValid(r[1])
    THEN [s EXCEPT !.gen = r[2], !.k = s.k + 1]
    ELSE [gen |-> r[2], k |-> s.k + 1,
          scored |-> Append(s.scored,
              [entry |-> entry,
               dtwDistance |-> computeDTWDistanceOf(sc.config, normalizedPath, r[1])])]

ScoreStep(sc, normalizedPath, filtered, s) ==
    ScoreEntry(sc, normalizedPath, filtered[s.k], s,
               getIdealPath(s.gen, filtered[s.k].word))

RECURSIVE ScoreLoop(_, _, _, _, _)
ScoreLoop(sc, normalizedPath, filtered, s, n) ==
    IF ~(s.k <= Len(filtered)) \/ n = 0 THEN s
    ELSE IF n = 1 THEN ScoreStep(sc, normalizedPath, filtered, s)
    ELSE ScoreLoop(sc, normalizedPath, filtered,
                   ScoreLoop(sc, normalizedPath, filtered, s, n \div 2),
                   n - n \div 2)

\* Step 5: rawMaxDTW and minCandDTW over the finite distances
RECURSIVE RawMaxDTW(_, _, _)
RawMaxDTW(scored, i, acc) ==
    IF i > Len(scored) THEN acc
    ELSE RawMaxDTW(scored, i + 1,
             IF scored[i].dtwDistance < FLT_MAX /\ scored[i].dtwDistance > acc
             THEN scored[i].dtwDistance ELSE acc)

RECURSIVE MinCandDTW(_, _, _)
MinCandDTW(scored, i, acc) ==
    IF i > Len(scored) THEN acc
    ELSE MinCandDTW(scored, i + 1,
             IF scored[i].dtwDistance < FLT_MAX /\ scored[i].dtwDistance < acc
             THEN scored[i].dtwDistance ELSE acc)

\* a variant of MaxDTWOf that applies the floor of the lone candidate always
MaxDTWOfFloorAlways(scored, cfg) == Max(RawMaxDTW(scored, 1, 0), cfg.maxDTWFloor)

MaxDTWOf(scored, cfg) ==
    IF Len(scored) <= 1
    THEN Max(RawMaxDTW(scored, 1, 0), cfg.maxDTWFloor)
    ELSE Max(RawMaxDTW(scored, 1, 0), SCALE \div 100)

\* a variant of EffectiveAlpha without the lower limit of the reduction
EffectiveAlphaNoLimit(scored, cfg) ==
    LET minCandDTW == MinCandDTW(scored, 1, FLT_MAX)
        rawRange == IF minCandDTW < FLT_MAX
                    THEN RawMaxDTW(scored, 1, 0) - minCandDTW ELSE 0
    IN  IF Len(scored) > 1 /\ rawRange < SCALE \div 2
        THEN FMul(cfg.frequencyWeight, FDiv(rawRange * SCALE, SCALE \div 2))
        ELSE cfg.frequencyWeight

\* Step 5b: the adaptive frequency weight
EffectiveAlpha(scored, cfg) ==
    LET minCandDTW == MinCandDTW(scored, 1, FLT_MAX)
        rawRange == IF minCandDTW < FLT_MAX
                    THEN RawMaxDTW(scored, 1, 0) - minCandDTW ELSE 0
    IN  IF Len(scored) > 1 /\ rawRange < SCALE \div 2
        THEN FMul(cfg.frequencyWeight,
                  Max(SCALE \div 10, FDiv(rawRange * SCALE, SCALE \div 2)))
        ELSE cfg.frequencyWeight

\* a variant of Candidate without the clamp of the final score
CandidateUnclamped(s, maxDTW, effectiveAlpha, maxFreq) ==
    LET normalizedDTW == IF maxDTW > 0 /\ s.dtwDistance < FLT_MAX
                         THEN Min(SCALE, FDiv(s.dtwDistance * SCALE, maxDTW))
                         ELSE SCALE
        normalizedFreq == IF maxFreq > 0
                          THEN Min(SCALE, FDiv(s.entry.frequency * SCALE, maxFreq))
                          ELSE 0
        finalScore == FMul(SCALE - effectiveAlpha, normalizedDTW)
                          + FMul(effectiveAlpha, SCALE - normalizedFreq)
    IN  [word |-> s.entry.word,
         confidence |-> SCALE - finalScore,
         sourceFlags |-> SOURCE_MAIN_DICT,
         dtwScore |-> s.dtwDistance,
         frequencyScore |-> IF maxFreq > 0
                            THEN FDiv(s.entry.frequency * SCALE, maxFreq) ELSE 0]

\* Step 6: the candidate of one scored entry
Candidate(s, maxDTW, effectiveAlpha, maxFreq) ==
    LET normalizedDTW == IF maxDTW > 0 /\ s.dtwDistance < FLT_MAX
                         THEN Min(SCALE, FDiv(s.dtwDistance * SCALE, maxDTW))
                         ELSE SCALE
        normalizedFreq == IF maxFreq > 0
                          THEN Min(SCALE, FDiv(s.entry.frequency * SCALE, maxFreq))
                          ELSE 0
        finalScore == FMul(SCALE - effectiveAlpha, normalizedDTW)
                          + FMul(effectiveAlpha, SCALE - normalizedFreq)
    IN  [word |-> s.entry.word,
         confidence |-> SCALE - Max(0, Min(SCALE, finalScore)),
         sourceFlags |-> SOURCE_MAIN_DICT,
         dtwScore |-> s.dtwDistance,
         frequencyScore |-> IF maxFreq > 0
                            THEN FDiv(s.entry.frequency * SCALE, maxFreq) ELSE 0]

\* Step 7: std::sort with the comparator a.confidence > b.confidence gives
\* some order in which no element is strictly preceded by a smaller one
stdSort(results) ==
    LET n == Len(results)
    IN  { [i \in 1..n |-> results[p[i]]] :
            p \in { q \in Permutations(1..n) :
                      \A i, j \in 1..n :
                          i < j => ~(results[q[j]].confidence > results[q[i]].confidence) } }

ClampMaxCandidates(maxCandidates) == Max(1, Min(maxCandidates, MAX_MAX_CANDIDATES))

\* a variant of Resize that never truncates
ResizeKeepsAll(results, maxCandidates) == results

Resize(results, maxCandidates) ==
    IF Len(results) > maxCandidates THEN SubSeq(results, 1, maxCandidates) ELSE results

(***************************************************************************)
(* The engine as a state machine.  The variables are the fields of         *)
(* GestureEngine::Impl.  call is the call that has just returned: its      *)
(* name, its arguments, what it returned (ok for a bool, results for a     *)
(* candidate list, unsorted for the list before the sort, path for a      *)
(* path, value for a float), the errors delivered to the error callback and what held before  *)
(* the call; it is NoCall while the client holds no result.  requested is  *)
(* a history variable of the generator on its own (SpecGen below): the     *)
(* lower-cased words asked of it since its cache was last emptied.         *)
(***************************************************************************)
VARIABLES pathProcessor, idealPathGen, scorer, dictLoader, layout, config,
          errorCallback, lastError, initialized, call, requested

vars == <<pathProcessor, idealPathGen, scorer, dictLoader, layout, config,
          errorCallback, lastError, initialized, call, requested>>

NoCall ==
    [op |-> "none", arg |-> << >>, ok |-> TRUE, results |-> << >>,
     unsorted |-> << >>, delivered |-> << >>, pre |-> << >>, path |-> << >>,
     value |-> 0]

Idle == call.op = "none"

\* what held when the call was made
Pre ==
    [initialized |-> initialized, loaded |-> isLoaded(dictLoader),
     entries |-> dictLoader.entries, cacheSize |-> cacheSize(idealPathGen),
     lastError |-> lastError]

Called(op, arg) == [NoCall EXCEPT !.op = op, !.arg = arg, !.pre = Pre]

\* a variant of Delivered that calls the callback before the error is stored
DeliveredBeforeStore(code) == IF errorCallback THEN <<lastError>> ELSE << >>

\* Impl::reportError: the callback, when set, receives the error
Delivered(code) == IF errorCallback THEN <<code>> ELSE << >>

Init ==
    /\ pathProcessor = NewPathProcessor
    /\ idealPathGen = [layout |-> DefaultKeyboardLayout, layoutSet |-> FALSE,
                       cache |-> << >>]
    /\ scorer = [config |-> DefaultScoringConfig]
    /\ dictLoader = NewDictionaryLoader
    /\ layout = DefaultKeyboardLayout
    /\ config = DefaultScoringConfig
    /\ errorCallback = FALSE
    /\ lastError = ErrNONE
    /\ initialized = FALSE
    /\ call = NoCall
    /\ requested = {}

\* a variant of InitBody that looks at the layout after the load
InitBodyLoadsFirst(this, lay, r) ==
    IF ~r.ok
    THEN /\ dictLoader' = r.store
         /\ lastError' = dictGetLastError(r.store)
         /\ call' = [this EXCEPT !.ok = FALSE,
                                 !.delivered = Delivered(dictGetLastError(r.store))]
         /\ UNCHANGED <<requested, pathProcessor, idealPathGen, scorer, layout, config,
                        errorCallback, initialized>>
    ELSE IF ~isValid(lay)
    THEN /\ dictLoader' = r.store
         /\ lastError' = ErrLAYOUT_INVALID
         /\ call' = [this EXCEPT !.ok = FALSE,
                                 !.delivered = Delivered(ErrLAYOUT_INVALID)]
         /\ UNCHANGED <<requested, pathProcessor, idealPathGen, scorer, layout,
                        config, errorCallback, initialized>>
    ELSE /\ dictLoader' = r.store
         /\ layout' = lay
         /\ idealPathGen' = setLayout(idealPathGen, lay)
         /\ scorer' = [scorer EXCEPT !.config = config]
         /\ initialized' = TRUE
         /\ call' = [this EXCEPT !.ok = TRUE]
         /\ UNCHANGED <<requested, pathProcessor, config, errorCallback, lastError>>

\* the common body of init and initWithData; r is the outcome of the load
InitBody(this, lay, r) ==
    IF ~isValid(lay)
    THEN /\ lastError' = ErrLAYOUT_INVALID
         /\ call' = [this EXCEPT !.ok = FALSE,
                                 !.delivered = Delivered(ErrLAYOUT_INVALID)]
         /\ UNCHANGED <<requested, pathProcessor, idealPathGen, scorer, dictLoader, layout,
                        config, errorCallback, initialized>>
    ELSE IF ~r.ok
    THEN /\ dictLoader' = r.store
         /\ lastError' = dictGetLastError(r.store)
         /\ call' = [this EXCEPT !.ok = FALSE,
                                 !.delivered = Delivered(dictGetLastError(r.store))]
         /\ UNCHANGED <<requested, pathProcessor, idealPathGen, scorer, layout, config,
                        errorCallback, initialized>>
    ELSE /\ dictLoader' = r.store
         /\ layout' = lay
         /\ idealPathGen' = setLayout(idealPathGen, lay)
         /\ scorer' = [scorer EXCEPT !.config = config]
         /\ initialized' = TRUE
         /\ call' = [this EXCEPT !.ok = TRUE]
         /\ UNCHANGED <<requested, pathProcessor, config, errorCallback, lastError>>

init ==
    /\ Idle
    /\ \E lay \in Layouts, file \in Files :
           InitBody(Called("init", [layout |-> lay, file |-> file]), lay,
                    load(dictLoader, file))

initWithData ==
    /\ Idle
    /\ \E lay \in Layouts, dictData \in Buffers :
           InitBody(Called("initWithData", [layout |-> lay, dictData |-> dictData]),
                    lay, loadFromMemory(dictLoader, dictData))

\* Steps 1 to 6 of recognize on an initialized engine and a non-empty raw
\* path: the candidates before the sort and the generator afterwards
\* Steps 5 and 6: the candidates of the scored entries
Candidates(scored, maxDTW, effectiveAlpha, maxFreq) ==
    [i \in 1..Len(scored) |-> Candidate(scored[i], maxDTW, effectiveAlpha, maxFreq)]

\* s is the state the scoring loop ended in
ScoredResults(s, store, cfg) ==
    [results |-> Candidates(s.scored, MaxDTWOf(s.scored, cfg),
                            EffectiveAlpha(s.scored, cfg), getMaxFrequency(store)),
     gen |-> s.gen]

\* Step 4: the scoring loop over the filtered entries
ScoreFiltered(gen, sc, normalizedPath, filtered) ==
    ScoreLoop(sc, normalizedPath, filtered,
              [gen |-> gen, scored |-> << >>, k |-> 1], Len(filtered))

\* Steps 2 to 6 on the normalized path
RecognizeNormalized(gen, sc, store, lay, cfg, rawPath, normalizedPath) ==
    IF ~PathIsValid(normalizedPath) THEN [results |-> << >>, gen |-> gen]
    ELSE ScoredResults(
             ScoreFiltered(gen, sc, normalizedPath,
                 LengthFilter(CandidateEntries(store, StartEndChars(lay, normalizedPath)),
                              estimateWordLengthByKeyTransitions(lay, rawPath),
                              cfg.lengthFilterTolerance)),
             store, cfg)

RecognizeScored(pp, gen, sc, store, lay, cfg, rawPath) ==
    RecognizeNormalized(gen, sc, store, lay, cfg, rawPath, normalizeOf(pp, rawPath, lay))

\* a variant of RecognizeSorted that reports an empty result as an error
RecognizeSortedReportsEmpty(this, r, maxCandidates) ==
    \E sorted \in stdSort(r.results) :
        /\ idealPathGen' = r.gen
        /\ call' = [this EXCEPT
                      !.unsorted = r.results,
                      !.results = Resize(sorted, ClampMaxCandidates(maxCandidates)),
                      !.delivered = IF Len(r.results) = 0
                                    THEN Delivered(ErrPATH_TOO_SHORT) ELSE << >>]
        /\ lastError' = IF Len(r.results) = 0 THEN ErrPATH_TOO_SHORT ELSE lastError

\* Steps 7 and 8 and the return: r is the outcome of the steps before
RecognizeSorted(this, r, maxCandidates) ==
    \E sorted \in stdSort(r.results) :
        /\ idealPathGen' = r.gen
        /\ call' = [this EXCEPT
                      !.unsorted = r.results,
                      !.results = Resize(sorted, ClampMaxCandidates(maxCandidates))]
        /\ UNCHANGED lastError

\* GestureEngine::recognize on one raw path and one max_candidates
RecognizeBody(rawPath, maxCandidates) ==
    /\ LET this == Called("recognize", [rawPath |-> rawPath,
                                        maxCandidates |-> maxCandidates])
       IN  IF ~initialized
           THEN /\ lastError' = ErrENGINE_NOT_INITIALIZED
                /\ call' = [this EXCEPT
                              !.delivered = Delivered(ErrENGINE_NOT_INITIALIZED)]
                /\ UNCHANGED idealPathGen
           ELSE IF RawIsEmpty(rawPath)
           THEN /\ lastError' = ErrPATH_TOO_SHORT
                /\ call' = [this EXCEPT !.delivered = Delivered(ErrPATH_TOO_SHORT)]
                /\ UNCHANGED idealPathGen
           ELSE RecognizeSorted(this,
                    RecognizeScored(pathProcessor, idealPathGen, scorer,
                                    dictLoader, layout, config, rawPath),
                    maxCandidates)
    /\ UNCHANGED <<requested, pathProcessor, scorer, dictLoader, layout, config, errorCallback,
                   initialized>>

recognize ==
    /\ Idle
    /\ \E rawPath \in RawPaths :
         \E maxCandidates \in MaxCandidatesInputs : RecognizeBody(rawPath, maxCandidates)

shutdown ==
    /\ Idle
    /\ dictLoader' = unload(dictLoader)
    /\ idealPathGen' = clearCache(idealPathGen)
    /\ initialized' = FALSE
    /\ call' = Called("shutdown", << >>)
    /\ UNCHANGED <<requested, pathProcessor, scorer, layout, config, errorCallback, lastError>>

updateLayout ==
    /\ Idle
    /\ \E lay \in Layouts :
         LET this == Called("updateLayout", [layout |-> lay])
         IN  IF ~initialized
             THEN /\ call' = [this EXCEPT !.ok = FALSE]
                  /\ UNCHANGED <<layout, idealPathGen, lastError>>
             ELSE IF ~isValid(lay)
             THEN /\ lastError' = ErrLAYOUT_INVALID
                  /\ call' = [this EXCEPT !.ok = FALSE,
                                          !.delivered = Delivered(ErrLAYOUT_INVALID)]
                  /\ UNCHANGED <<layout, idealPathGen>>
             ELSE /\ layout' = lay
                  /\ idealPathGen' = setLayout(idealPathGen, lay)
                  /\ call' = [this EXCEPT !.ok = TRUE]
                  /\ UNCHANGED lastError
    /\ UNCHANGED <<requested, pathProcessor, scorer, dictLoader, config, errorCallback, initialized>>

configure ==
    /\ Idle
    /\ \E cfg \in Configs :
         /\ config' = cfg
         /\ scorer' = [scorer EXCEPT !.config = cfg]
         /\ call' = Called("configure", [config |-> cfg])
    /\ UNCHANGED <<requested, pathProcessor, idealPathGen, dictLoader, layout, errorCallback,
                   lastError, initialized>>

\* the callback is a std::function: set (TRUE) or empty (FALSE)
setErrorCallback ==
    /\ Idle
    /\ \E callback \in BOOLEAN :
         /\ errorCallback' = callback
         /\ call' = Called("setErrorCallback", [callback |-> callback])
    /\ UNCHANGED <<requested, pathProcessor, idealPathGen, scorer, dictLoader, layout, config,
                   lastError, initialized>>

\* the client takes the result; the engine is ready for the next call
Return ==
    /\ ~Idle
    /\ call' = NoCall
    /\ UNCHANGED <<requested, pathProcessor, idealPathGen, scorer, dictLoader, layout, config,
                   errorCallback, lastError, initialized>>

Next ==
    \/ init
    \/ initWithData
    \/ recognize
    \/ shutdown
    \/ updateLayout
    \/ configure
    \/ setErrorCallback
    \/ Return

Spec == Init /\ [][Next]_vars

(***************************************************************************)
(* The dictionary store on its own: a DictionaryLoader that a client       *)
(* loads, reloads and unloads, with no engine around it.  The store is     *)
(* dictLoader; the other variables keep their initial values.              *)
(***************************************************************************)
MaxEntries == 2

\* a word of the largest length a dictionary entry may have
LongestWord == [i \in 1..MAX_WORD_LENGTH |-> 98]

DictWords ==
    {[word |-> <<97>>, frequency |-> 0], [word |-> LongestWord, frequency |-> 5],
     [word |-> <<65, 98>>, frequency |-> 300]}

\* the entry lists written to a dictionary: up to MaxEntries entries
EntryLists == UNION {[1..n -> DictWords] : n \in 0..MaxEntries}

WrittenDicts == {makeMinimalDict(LangEn, E) : E \in EntryLists}

\* damaged dictionaries: every proper prefix, a wrong magic, a wrong version, both,
\* and a word length above MAX_WORD_LENGTH in each entry position
\* where the word-length byte of each entry of E lies in its dictionary
EntryOffsets(E) ==
    {Len(makeMinimalDict(LangEn, SubSeq(E, 1, i))) + 1 : i \in 0..(Len(E) - 1)}

DamagedFrom(E) ==
    LET b == makeMinimalDict(LangEn, E)
    IN  {SubSeq(b, 1, n) : n \in 0..(Len(b) - 1)}
            \cup {[b EXCEPT ![1] = 0], [b EXCEPT ![5] = 2], [b EXCEPT ![1] = 0, ![5] = 2]}
            \cup {[b EXCEPT ![k] = MAX_WORD_LENGTH + 1] : k \in EntryOffsets(E)}

DamagedDicts == UNION {DamagedFrom(E) : E \in EntryLists}

DictBuffers == WrittenDicts \cup DamagedDicts

DictFiles == {FileOf(b) : b \in DictBuffers} \cup {FileMissing, FileUnreadable}

LoadBody(this, r) ==
    /\ dictLoader' = r.store
    /\ call' = [this EXCEPT !.ok = r.ok]
    /\ UNCHANGED <<requested, pathProcessor, idealPathGen, scorer, layout, config,
                   errorCallback, lastError, initialized>>

dictLoad ==
    /\ Idle
    /\ \E file \in DictFiles :
         LoadBody(Called("load", [file |-> file]), load(dictLoader, file))

dictLoadFromMemory ==
    /\ Idle
    /\ \E data \in DictBuffers :
         LoadBody(Called("loadFromMemory", [data |-> data]),
                  loadFromMemory(dictLoader, data))

dictUnload ==
    /\ Idle
    /\ dictLoader' = unload(dictLoader)
    /\ call' = Called("unload", << >>)
    /\ UNCHANGED <<requested, pathProcessor, idealPathGen, scorer, layout, config,
                   errorCallback, lastError, initialized>>

NextDict ==
    \/ dictLoad
    \/ dictLoadFromMemory
    \/ dictUnload
    \/ Return

SpecDict == Init /\ [][NextDict]_vars

(***************************************************************************)
(* The ideal-path generator on its own: an IdealPathGenerator whose client *)
(* sets layouts, asks for paths, pregenerates and clears the cache.  The   *)
(* generator is idealPathGen; requested records the lower-cased words      *)
(* asked for while a layout was set, since the cache was last emptied.     *)
(***************************************************************************)
\* "abd", "ABD", "acd" and "x", which no layout of the model has a key for
GenWords == {<<97, 98, 100>>, <<65, 66, 68>>, <<97, 99, 100>>, <<120>>}

PregenLists ==
    {<< >>, <<<<97, 98, 100>>, <<120>>, <<65, 66, 68>>>>, <<<<97, 99, 100>>, <<97, 98, 100>>>>}

RECURSIVE pregenerate(_, _)
pregenerate(gen, words) ==
    IF Len(words) = 0 THEN gen
    ELSE pregenerate(getIdealPath(gen, Head(words))[2], Tail(words))

\* the lower-cased form of the words of a list
Lowered(words) ==
    {[i \in 1..Len(words[k]) |-> ToLower(words[k][i])] : k \in 1..Len(words)}

GenFrame ==
    UNCHANGED <<pathProcessor, scorer, dictLoader, layout, config, errorCallback,
                lastError, initialized>>

genSetLayout ==
    /\ Idle
    /\ \E lay \in Layouts :
         /\ idealPathGen' = setLayout(idealPathGen, lay)
         /\ call' = Called("setLayout", [layout |-> lay])
    /\ requested' = {}
    /\ GenFrame

\* r = <<path returned, generator afterwards>>
GetIdealPathReturn(this, r) ==
    /\ idealPathGen' = r[2]
    /\ call' = [this EXCEPT !.path = r[1]]

genGetIdealPath ==
    /\ Idle
    /\ \E word \in GenWords :
         /\ GetIdealPathReturn(Called("getIdealPath", [word |-> word]),
                               getIdealPath(idealPathGen, word))
         /\ requested' = IF idealPathGen.layoutSet
                         THEN requested \cup Lowered(<<word>>) ELSE requested
    /\ GenFrame

genPregenerate ==
    /\ Idle
    /\ \E words \in PregenLists :
         /\ idealPathGen' = pregenerate(idealPathGen, words)
         /\ call' = Called("pregenerate", [words |-> words])
         /\ requested' = IF idealPathGen.layoutSet
                         THEN requested \cup Lowered(words) ELSE requested
    /\ GenFrame

genClearCache ==
    /\ Idle
    /\ idealPathGen' = clearCache(idealPathGen)
    /\ call' = Called("clearCache", << >>)
    /\ requested' = {}
    /\ GenFrame

NextGen ==
    \/ genSetLayout
    \/ genGetIdealPath
    \/ genPregenerate
    \/ genClearCache
    \/ Return

SpecGen == Init /\ [][NextGen]_vars

(***************************************************************************)
(* The scorer on its own: a Scorer whose client configures it and asks     *)
(* for DTW distances and confidences.  The scorer is the variable scorer.  *)
(***************************************************************************)
\* ScorerTest's makeFlatPath and makeLinePath, with count points
makeLinePath(x0, y0, x1, y1, count) ==
    [EmptyGesturePath EXCEPT
       !.points = [i \in 1..count |->
                     [x |-> x0 + FMul(x1 - x0, FDiv((i - 1) * SCALE, RESAMPLE_COUNT - 1)),
                      y |-> y0 + FMul(y1 - y0, FDiv((i - 1) * SCALE, RESAMPLE_COUNT - 1)),
                      t |-> FDiv((i - 1) * SCALE, RESAMPLE_COUNT - 1)]]]

makeFlatPath(x, y) == makeLinePath(x, y, x, y, RESAMPLE_COUNT)

\* the path with every time value replaced by 0.5
Untimed(path) ==
    [path EXCEPT !.points = [i \in 1..Len(path.points) |->
                                [path.points[i] EXCEPT !.t = SCALE \div 2]]]

Diagonal == makeLinePath(0, 0, SCALE, SCALE, RESAMPLE_COUNT)

\* a path that rests at (0, 0) for its first points and at (1, 0) for the others
StepPath(first) ==
    [EmptyGesturePath EXCEPT
       !.points = [i \in 1..RESAMPLE_COUNT |->
                     [x |-> IF i <= first THEN 0 ELSE SCALE, y |-> 0,
                      t |-> FDiv((i - 1) * SCALE, RESAMPLE_COUNT - 1)]]]

\* 64-point paths, two of them stepping 7 points apart, and paths of 0, 63
\* and 65 points
ScorerPaths ==
    TableValues(NormalizedPaths) \cup TableValues(IdealPaths)
        \cup {makeFlatPath(SCALE \div 2, SCALE \div 2), Diagonal, Untimed(Diagonal),
              makeLinePath(0, SCALE \div 4, SCALE, SCALE \div 4, RESAMPLE_COUNT),
              makeLinePath(0, 0, SCALE, SCALE, RESAMPLE_COUNT - 1),
              makeLinePath(0, 0, SCALE, SCALE, RESAMPLE_COUNT + 1),
              StepPath(32), StepPath(25)}

\* band ratios 0.1, 0.5, 0, -0.5 and 2; frequency weights 0.3, 1.5, 0 and 1
ScorerConfigs ==
    Configs \cup {[DefaultScoringConfig EXCEPT !.dtwBandwidthRatio = 0, !.frequencyWeight = 0],
                  [DefaultScoringConfig EXCEPT !.dtwBandwidthRatio = -(SCALE \div 2),
                                               !.frequencyWeight = SCALE],
                  [DefaultScoringConfig EXCEPT !.dtwBandwidthRatio = 2 * SCALE]}

DtwInputs == {0, 300, 696, 3 * SCALE, FLT_MAX}

MaxDtwInputs == {0, SCALE \div 100, 3 * SCALE}

FrequencyInputs == {0, 60, 100, 200}

MaxFrequencyInputs == {0, 100}

ScorerFrame ==
    UNCHANGED <<pathProcessor, idealPathGen, dictLoader, layout, config, errorCallback,
                lastError, initialized, requested>>

scConfigure ==
    /\ Idle
    /\ \E cfg \in ScorerConfigs :
         /\ scorer' = [scorer EXCEPT !.config = cfg]
         /\ call' = Called("configure", [config |-> cfg])
    /\ ScorerFrame

scComputeDTWDistance ==
    /\ Idle
    /\ \E gesture \in ScorerPaths, idealPath \in ScorerPaths :
         call' = [Called("computeDTWDistance", [gesture |-> gesture, idealPath |-> idealPath])
                    EXCEPT !.value = computeDTWDistanceOf(scorer.config, gesture, idealPath)]
    /\ UNCHANGED scorer
    /\ ScorerFrame

scComputeConfidence ==
    /\ Idle
    /\ \E dtwDistance \in DtwInputs, maxDTWDistance \in MaxDtwInputs,
          frequency \in FrequencyInputs, maxFrequency \in MaxFrequencyInputs :
         call' = [Called("computeConfidence",
                         [dtwDistance |-> dtwDistance, maxDTWDistance |-> maxDTWDistance,
                          frequency |-> frequency, maxFrequency |-> maxFrequency])
                    EXCEPT !.value = computeConfidence(scorer.config, dtwDistance,
                                         maxDTWDistance, frequency, maxFrequency)]
    /\ UNCHANGED scorer
    /\ ScorerFrame

NextScorer ==
    \/ scConfigure
    \/ scComputeDTWDistance
    \/ scComputeConfidence
    \/ Return

SpecScorer == Init /\ [][NextScorer]_vars

(***************************************************************************)
(* The claims.                                                             *)
(***************************************************************************)
DictLoadErrors == {ErrDICT_NOT_FOUND, ErrDICT_CORRUPT, ErrDICT_VERSION_MISMATCH}

InitCall == call.op \in {"init", "initWithData"}

\* C1: when init or init_with_data has failed with a dictionary load error,
\* is_initialized() is false, whatever the engine was before (fresh, shut
\* down or initialized by an earlier init), and an init with a valid layout
\* and a valid dictionary would succeed from there.
C1_FailedInitLeavesUninitialized ==
    (InitCall /\ ~call.ok /\ lastError \in DictLoadErrors) =>
        /\ ~initialized
        /\ \A dictData \in ValidBuffers : loadFromMemory(dictLoader, dictData).ok
        /\ \A file \in ValidFiles : load(dictLoader, file).ok

\* C2: recognize returns at most clamp(max_candidates, 1, 20) candidates,
\* with confidences that never increase along the list, for any
\* max_candidates (zero, negative and above 20 included).
C2_AtMostClampedAndSorted ==
    call.op = "recognize" =>
        LET m == call.arg.maxCandidates
            limit == IF m < 1 THEN 1 ELSE IF m > 20 THEN 20 ELSE m
        IN  /\ Len(call.results) <= limit
            /\ \A i \in 1..(Len(call.results) - 1) :
                   call.results[i].confidence >= call.results[i + 1].confidence

\* a recognize that scored three candidates and, asked for -1, returned one
C2_Witness ==
    /\ call.op = "recognize"
    /\ call.arg.maxCandidates = -1
    /\ Len(call.unsorted) = 3
    /\ Len(call.results) = 1

\* C3: every candidate returned by recognize has its confidence and its
\* frequency_score between 0 and 1, also when the largest frequency of the
\* dictionary is 0 and under any scoring configuration.
C3_ScoresInUnitRange ==
    call.op = "recognize" =>
        \A i \in 1..Len(call.results) :
            /\ 0 <= call.results[i].confidence
            /\ call.results[i].confidence <= SCALE
            /\ 0 <= call.results[i].frequencyScore
            /\ call.results[i].frequencyScore <= SCALE

\* candidates returned from a dictionary of largest frequency 0 under a
\* configuration with every field off its default
C3_Witness ==
    /\ call.op = "recognize"
    /\ Len(call.results) > 0
    /\ getMaxFrequency(dictLoader) = 0
    /\ config = ConfigAlt

\* C4: recognize on an engine that is not initialized returns nothing and
\* records ENGINE_NOT_INITIALIZED, whatever the path; on an initialized
\* engine with fewer than 2 raw points it returns nothing and records
\* PATH_TOO_SHORT.  Both leave the initialized flag, the dictionary, the
\* layout, the ideal-path cache and the configuration as they were, so that
\* a following recognize works as before.
C4_RejectionsAreNotFatal ==
    [][ (Idle /\ call'.op = "recognize"
              /\ (~initialized \/ Len(call'.arg.rawPath) < 2)) =>
            /\ call'.results = << >>
            /\ lastError' = IF ~initialized THEN ErrENGINE_NOT_INITIALIZED
                            ELSE ErrPATH_TOO_SHORT
            /\ UNCHANGED <<initialized, dictLoader, layout, idealPathGen,
                           pathProcessor, scorer, config>> ]_vars

\* a one-point path rejected by an initialized engine that holds a
\* dictionary and cached ideal paths
C4_Witness ==
    /\ call.op = "recognize"
    /\ Len(call.arg.rawPath) = 1
    /\ call.results = << >>
    /\ lastError = ErrPATH_TOO_SHORT
    /\ call.pre.lastError # ErrPATH_TOO_SHORT
    /\ initialized
    /\ isLoaded(dictLoader)
    /\ cacheSize(idealPathGen) > 0

LoadCall == call.op \in {"load", "loadFromMemory"}

\* the bytes a load call read
LoadedBytes == IF call.op = "load" THEN call.arg.file.bytes ELSE call.arg.data

QueryChars == {97, 65, 98}

\* C5: after a load or load_from_memory that failed (short buffer, wrong
\* magic, wrong version, an entry cut short or too long after others were
\* parsed) the store is empty: not loaded, no entries, largest frequency 0,
\* a zero header, and every query returns nothing.
C5_FailedLoadLeavesStoreEmpty ==
    (LoadCall /\ ~call.ok) =>
        /\ ~isLoaded(dictLoader)
        /\ getEntryCount(dictLoader) = 0
        /\ getMaxFrequency(dictLoader) = 0
        /\ getHeader(dictLoader) = DictionaryHeader
        /\ getAllEntries(dictLoader) = << >>
        /\ \A c \in QueryChars :
             /\ getEntriesStartingWith(dictLoader, c) = << >>
             /\ \A d \in QueryChars : getEntriesWithStartEnd(dictLoader, c, d) = << >>
        /\ \A w \in DictWords : lookup(dictLoader, w.word) = << >>

RECURSIVE StableSortDesc(_)
\* the stable sort by confidence, largest first: of equal confidences the
\* earlier element comes first
StableSortDesc(seq) ==
    IF Len(seq) = 0 THEN << >>
    ELSE LET best == CHOOSE i \in 1..Len(seq) :
                        \A j \in 1..Len(seq) :
                            \/ seq[j].confidence < seq[i].confidence
                            \/ seq[j].confidence = seq[i].confidence /\ j >= i
         IN  <<seq[best]>> \o StableSortDesc(SubSeq(seq, 1, best - 1)
                                                 \o SubSeq(seq, best + 1, Len(seq)))

\* C6: the list recognize returns is the stable sort of the scored
\* candidates by confidence, largest first, cut to the clamped
\* max_candidates: equal confidences keep the order of scoring and a cut
\* through them keeps the earlier ones.
C6_SortIsStable ==
    (call.op = "recognize" /\ Len(call.unsorted) > 0) =>
        LET m == call.arg.maxCandidates
            limit == IF m < 1 THEN 1 ELSE IF m > 20 THEN 20 ELSE m
            sorted == StableSortDesc(call.unsorted)
        IN  call.results = SubSeq(sorted, 1, Min(limit, Len(sorted)))

\* C7: recognize works with the values last given to configure: the path
\* processor resamples to resample_count and deduplicates with
\* min_point_distance, and the scorer holds the configuration.
C7_ConfigureTakesEffect ==
    (call.op = "recognize" /\ Len(call.unsorted) > 0) =>
        /\ pathProcessor.resampleCount = config.resampleCount
        /\ pathProcessor.minPointDistance = config.minPointDistance
        /\ scorer.config = config

\* C8: update_layout with a valid layout on an initialized engine returns
\* true, makes that layout the engine's (nearest-key lookup) and the
\* generator's (ideal paths), empties the ideal-path cache and leaves the
\* dictionary, the scoring configuration and the initialized flag alone.
C8_UpdateLayoutFrame ==
    [][ (Idle /\ call'.op = "updateLayout" /\ initialized
              /\ call'.arg.layout \in ValidLayouts) =>
            /\ call'.ok
            /\ layout' = call'.arg.layout
            /\ idealPathGen'.layoutSet
            /\ idealPathGen'.layout = call'.arg.layout
            /\ cacheSize(idealPathGen') = 0
            /\ dictLoader' = dictLoader
            /\ UNCHANGED <<config, scorer, initialized>> ]_vars

\* an update to the second layout that emptied a filled cache
C8_Witness ==
    /\ call.op = "updateLayout"
    /\ call.ok
    /\ call.pre.cacheSize > 0
    /\ cacheSize(idealPathGen) = 0
    /\ layout = LayoutB
    /\ getEntryCount(dictLoader) = 3

\* the engine as construction or shutdown leaves it
ShutDown ==
    /\ ~initialized
    /\ dictLoader = NewDictionaryLoader
    /\ cacheSize(idealPathGen) = 0

\* C9: after shutdown the dictionary is unloaded, the ideal-path cache is
\* empty and is_initialized() is false; a shutdown of an engine that is shut
\* down or was never initialized changes nothing; and while the engine is
\* not initialized recognize returns nothing with ENGINE_NOT_INITIALIZED,
\* which only a successful init ends.
C9_ShutdownIdempotent ==
    /\ [](call.op = "shutdown" => ShutDown)
    /\ [][ (Idle /\ call'.op = "shutdown" /\ ShutDown) =>
               UNCHANGED <<pathProcessor, idealPathGen, scorer, dictLoader, layout,
                           config, errorCallback, lastError, initialized>> ]_vars
    /\ []((call.op = "recognize" /\ ~initialized) =>
              (call.results = << >> /\ lastError = ErrENGINE_NOT_INITIALIZED))
    /\ [][ (~initialized /\ initialized') => (call'.op \in {"init", "initWithData"}
                                              /\ call'.ok) ]_vars

\* a shutdown of an initialized engine with a dictionary and cached paths
C9_Witness ==
    /\ call.op = "shutdown"
    /\ call.pre.initialized
    /\ call.pre.loaded
    /\ call.pre.cacheSize > 0
    /\ ShutDown

LargestFrequency(E) ==
    IF Len(E) = 0 THEN 0
    ELSE CHOOSE m \in {E[i].frequency : i \in 1..Len(E)} :
             \A i \in 1..Len(E) : m >= E[i].frequency

\* C10: loading the binary form of an entry list E succeeds from any store
\* state and leaves exactly E: all_entries() is E in order, entry_count()
\* is |E|, max_frequency() is the largest frequency of E (0 for no entry),
\* the header is that of the file; nothing of an earlier dictionary is left.
C10_RoundTrip ==
    \A E \in EntryLists :
        (LoadCall /\ LoadedBytes = makeMinimalDict(LangEn, E)) =>
            /\ call.ok
            /\ isLoaded(dictLoader)
            /\ getAllEntries(dictLoader) = [i \in 1..Len(E) |-> Word(E[i])]
            /\ getEntryCount(dictLoader) = Len(E)
            /\ getMaxFrequency(dictLoader) = LargestFrequency(E)
            /\ getHeader(dictLoader) =
                   [magic |-> DICT_MAGIC, version |-> DICT_VERSION, flags |-> 0,
                    entryCount |-> Len(E), languageTag |-> LangEn]

\* a one-entry dictionary loaded over a loaded two-entry dictionary of
\* larger frequency
C10_Witness ==
    /\ call.op = "loadFromMemory"
    /\ call.ok
    /\ call.pre.loaded
    /\ Len(call.pre.entries) = 2
    /\ call.pre.entries[2].frequency = 300
    /\ getAllEntries(dictLoader) = <<[word |-> LongestWord, frequency |-> 5, flags |-> 0]>>
    /\ getMaxFrequency(dictLoader) = 5

\* the magic 0x474C4944 and the version 1 as they lie in a file
MagicBytes == <<68, 73, 76, 71>>

VersionBytes == <<1, 0>>

\* the error the format rules give a failed load
ExpectedLoadError ==
    IF call.op = "load" /\ ~call.arg.file.exists THEN ErrDICT_NOT_FOUND
    ELSE IF call.op = "load" /\ ~call.arg.file.readable THEN ErrDICT_CORRUPT
    ELSE IF Len(LoadedBytes) < 32 THEN ErrDICT_CORRUPT
    ELSE IF SubSeq(LoadedBytes, 1, 4) # MagicBytes THEN ErrDICT_CORRUPT
    ELSE IF SubSeq(LoadedBytes, 5, 6) # VersionBytes THEN ErrDICT_VERSION_MISMATCH
    ELSE ErrDICT_CORRUPT

\* C11: a failed load reports DICT_NOT_FOUND for a file that cannot be
\* opened, DICT_VERSION_MISMATCH exactly for a valid magic with a version
\* other than 1, and DICT_CORRUPT for everything else (short data, wrong
\* magic with any version, a word longer than 64, an entry past the end);
\* and every damaged dictionary does fail.
C11_LoadErrorsDistinct ==
    LoadCall =>
        /\ ~call.ok => dictGetLastError(dictLoader) = ExpectedLoadError
        /\ (call.op = "loadFromMemory" /\ LoadedBytes \in DamagedDicts) => ~call.ok
        /\ (call.op = "load" /\ ~call.arg.file.exists) => ~call.ok

\* a wrong magic together with a wrong version, reported as DICT_CORRUPT
C11_Witness ==
    /\ call.op = "loadFromMemory"
    /\ ~call.ok
    /\ Len(LoadedBytes) > 32
    /\ LoadedBytes[1] = 0
    /\ LoadedBytes[5] = 2
    /\ dictGetLastError(dictLoader) = ErrDICT_CORRUPT

\* C12: every get_ideal_path returns the path a fresh generation gives for
\* the word under the generator's current layout, cached or not, in any
\* letter case, whatever was asked in between; so no path of an earlier
\* layout is returned after set_layout.
C12_IdealPathIsFreshGeneration ==
    call.op = "getIdealPath" =>
        call.path = generate([layout |-> idealPathGen.layout,
                              layoutSet |-> idealPathGen.layoutSet,
                              cache |-> << >>], call.arg.word)

\* "ABD" answered from the cache of the second layout, filled through "abd"
\* among other words
C12_Witness ==
    /\ call.op = "getIdealPath"
    /\ call.arg.word = <<65, 66, 68>>
    /\ idealPathGen.layoutSet
    /\ idealPathGen.layout = LayoutB
    /\ call.pre.cacheSize = 3
    /\ cacheSize(idealPathGen) = 3
    /\ PathIsValid(call.path)
    /\ call.path # IdealPaths[<<LayoutA, <<97, 98, 100>>>>]

\* C13: cache_size() is 0 right after set_layout and clear_cache, and
\* always the number of distinct lower-cased words asked for (by
\* get_ideal_path or pregenerate) while a layout was set since then, words
\* without a valid path included.
C13_CacheSizeCountsRequests ==
    /\ cacheSize(idealPathGen) = Cardinality(requested)
    /\ call.op \in {"setLayout", "clearCache"} => cacheSize(idealPathGen) = 0

\* three requests in two letter cases and a word without a path: two entries
C13_Witness ==
    /\ call.op = "pregenerate"
    /\ Len(call.arg.words) = 3
    /\ call.pre.cacheSize = 0
    /\ idealPathGen.layoutSet
    /\ cacheSize(idealPathGen) = 2
    /\ ~PathIsValid(idealPathGen.cache[<<120>>])

DtwCall == call.op = "computeDTWDistance"

Has64(path) == Len(path.points) = 64

\* C14: compute_dtw_distance(A, B) = compute_dtw_distance(B, A) for any two
\* 64-point paths, under every configuration.
C14_DtwSymmetric ==
    (DtwCall /\ Has64(call.arg.gesture) /\ Has64(call.arg.idealPath)) =>
        call.value = computeDTWDistance(scorer.config, call.arg.idealPath, call.arg.gesture)

\* two different 64-point paths at a positive finite distance
C14_Witness ==
    /\ DtwCall
    /\ call.arg.gesture = Diagonal
    /\ call.arg.idealPath \in TableValues(IdealPaths)
    /\ Has64(call.arg.idealPath)
    /\ call.value > 0
    /\ call.value < FLT_MAX
    /\ scorer.config = ConfigAlt

\* C15: the distance of a 64-point path to itself is 0, also when the two
\* arguments differ in their time values only, and no distance between
\* 64-point paths is negative.
C15_DtwZeroOnEqualPaths ==
    (DtwCall /\ Has64(call.arg.gesture) /\ Has64(call.arg.idealPath)) =>
        /\ call.value >= 0
        /\ Untimed(call.arg.gesture) = Untimed(call.arg.idealPath) => call.value = 0

\* the diagonal against its copy with other time values
C15_Witness ==
    /\ DtwCall
    /\ call.arg.gesture = Diagonal
    /\ call.arg.idealPath = Untimed(Diagonal)
    /\ call.arg.gesture # call.arg.idealPath
    /\ call.value = 0

\* C16: compute_dtw_distance returns FLT_MAX exactly when one of the paths
\* does not have 64 points: between 64-point paths the result is finite for
\* every band ratio, the band width being at least 1.
C16_DtwInfiniteOnlyOffSize ==
    DtwCall =>
        (call.value = FLT_MAX <=>
            ~(Has64(call.arg.gesture) /\ Has64(call.arg.idealPath)))

\* a finite distance under a negative band ratio
C16_Witness ==
    /\ DtwCall
    /\ scorer.config.dtwBandwidthRatio < 0
    /\ Has64(call.arg.gesture)
    /\ Has64(call.arg.idealPath)
    /\ call.value > 0
    /\ call.value < FLT_MAX

\* the candidate recognize builds for an entry of a frequency at a distance
CandidateOf(dtwDistance, frequency) ==
    Candidate([entry |-> [word |-> <<97>>, frequency |-> frequency, flags |-> 0],
               dtwDistance |-> dtwDistance],
              call.arg.maxDTWDistance, scorer.config.frequencyWeight,
              call.arg.maxFrequency)

\* C17: with max_dtw, max_frequency and a frequency weight in [0,1] fixed,
\* a smaller distance at the same frequency and a larger frequency at the
\* same distance never give a smaller confidence; the same holds of the
\* confidence recognize gives its candidates.
C17_ConfidenceMonotone ==
    (/\ call.op = "computeConfidence"
     /\ scorer.config.frequencyWeight >= 0
     /\ scorer.config.frequencyWeight <= SCALE) =>
        /\ \A d \in DtwInputs :
             d <= call.arg.dtwDistance =>
                 computeConfidence(scorer.config, d, call.arg.maxDTWDistance,
                                   call.arg.frequency, call.arg.maxFrequency) >= call.value
        /\ \A f \in FrequencyInputs :
             f >= call.arg.frequency =>
                 computeConfidence(scorer.config, call.arg.dtwDistance,
                                   call.arg.maxDTWDistance, f, call.arg.maxFrequency)
                     >= call.value
        /\ \A d \in DtwInputs, f \in FrequencyInputs :
             (d <= call.arg.dtwDistance /\ f >= call.arg.frequency) =>
                 CandidateOf(d, f).confidence
                     >= CandidateOf(call.arg.dtwDistance, call.arg.frequency).confidence

\* a confidence strictly inside (0, 1) that both inputs can still raise
C17_Witness ==
    /\ call.op = "computeConfidence"
    /\ scorer.config.frequencyWeight = FREQUENCY_WEIGHT
    /\ call.arg.dtwDistance = 696
    /\ call.arg.maxDTWDistance = 3 * SCALE
    /\ call.arg.frequency = 60
    /\ call.arg.maxFrequency = 100
    /\ call.value > 0
    /\ call.value < computeConfidence(scorer.config, 300, 3 * SCALE, 60, 100)
    /\ call.value < computeConfidence(scorer.config, 696, 3 * SCALE, 100, 100)


(***************************************************************************)
(* The path processor on its own (PathProcessor.cpp): normalize and the    *)
(* two setters, applied to raw paths of every kind.                        *)
(***************************************************************************)
\* no point, one point, two and three equal points, points apart by less
\* than the default deduplication distance, and ordinary paths
PathInputs ==
    RawPaths \cup
    { <<Pt(5, 5, 0), Pt(5, 5, 10)>>,
      <<Pt(5, 5, 0), Pt(5, 5, 10), Pt(5, 5, 20)>>,
      <<Pt(5, 5, 0), Pt(6, 5, 10)>>,
      <<Pt(5, 5, 0), Pt(6, 5, 10), Pt(5, 6, 20)>>,
      <<Pt(5, 5, 0), Pt(25, 25, 0)>>,
      <<Pt(25, 5, 0), Pt(24, 5, 5), Pt(5, 5, 10)>> }

MinPointDistanceInputs == {0, MIN_POINT_DISTANCE_DP, 5 * SCALE}

ResampleCountInputs == {1, 8, RESAMPLE_COUNT}

PathFrame ==
    UNCHANGED <<idealPathGen, scorer, dictLoader, layout, config, errorCallback,
                lastError, initialized, requested>>

ppSetMinPointDistance ==
    /\ Idle
    /\ \E distanceDp \in MinPointDistanceInputs :
         /\ pathProcessor' = [pathProcessor EXCEPT !.minPointDistance = distanceDp]
         /\ call' = Called("setMinPointDistance", [distanceDp |-> distanceDp])
    /\ PathFrame

ppSetResampleCount ==
    /\ Idle
    /\ \E count \in ResampleCountInputs :
         /\ pathProcessor' = IF count >= 2
                             THEN [pathProcessor EXCEPT !.resampleCount = count]
                             ELSE pathProcessor
         /\ call' = Called("setResampleCount", [count |-> count])
    /\ PathFrame

ppNormalize ==
    /\ Idle
    /\ \E raw \in PathInputs, keyboardLayout \in Layouts :
         call' = [Called("normalize", [raw |-> raw, layout |-> keyboardLayout])
                    EXCEPT !.path = normalizeOf(pathProcessor, raw, keyboardLayout)]
    /\ UNCHANGED pathProcessor
    /\ PathFrame

NextPath ==
    \/ ppSetMinPointDistance
    \/ ppSetResampleCount
    \/ ppNormalize
    \/ Return

SpecPath == Init /\ [][NextPath]_vars

\* the points of a raw path lie closer to each other than the distance
AllCloserThan(raw, distance) ==
    \A i, j \in 1..Len(raw) : pointDistance(raw[i], raw[j]) < distance

CenterPoints(count) == [k \in 1..count |-> [x |-> SCALE \div 2, y |-> SCALE \div 2, t |-> SCALE \div 2]]

BoxIsPoint(raw) ==
    /\ SeqMax(raw, "x") - SeqMin(raw, "x") < 1
    /\ SeqMax(raw, "y") - SeqMin(raw, "y") < 1

QwertyUnit == 64

QKey(cp, cx, cy) == [codePoint |-> cp, centerX |-> cx * QwertyUnit, centerY |-> cy * QwertyUnit]

makeQwertyLayout ==
    [keys |-> <<QKey(113, 16, 26), QKey(119, 48, 26), QKey(101, 80, 26), QKey(114, 112, 26),
                QKey(116, 144, 26), QKey(121, 176, 26), QKey(117, 208, 26), QKey(105, 240, 26),
                QKey(111, 272, 26), QKey(112, 304, 26),
                QKey(97, 32, 80), QKey(115, 64, 80), QKey(100, 96, 80), QKey(102, 128, 80),
                QKey(103, 160, 80), QKey(104, 192, 80), QKey(106, 224, 80), QKey(107, 256, 80),
                QKey(108, 288, 80),
                QKey(122, 64, 134), QKey(120, 96, 134), QKey(99, 128, 134), QKey(118, 160, 134),
                QKey(98, 192, 134), QKey(110, 224, 134), QKey(109, 256, 134)>>,
     layoutWidth |-> 320 * QwertyUnit, layoutHeight |-> 160 * QwertyUnit]

\* the key centres of the letters of word[i..] that the layout has
RECURSIVE CentersFrom(_, _, _)
CentersFrom(keyboardLayout, word, i) ==
    IF i > Len(word) THEN << >>
    ELSE LET idx == findKeyByCodePoint(keyboardLayout, word[i])
         IN  IF idx >= 0
             THEN <<[x |-> keyboardLayout.keys[idx + 1].centerX,
                     y |-> keyboardLayout.keys[idx + 1].centerY]>>
                  \o CentersFrom(keyboardLayout, word, i + 1)
             ELSE CentersFrom(keyboardLayout, word, i + 1)

makePathForWord(keyboardLayout, word, pointsPerSegment) ==
    LET centers == CentersFrom(keyboardLayout, word, 1)
        n == (Len(centers) - 1) * pointsPerSegment
    IN  IF Len(word) = 0 \/ Len(centers) = 0 THEN << >>
        ELSE [k \in 1..(n + 1) |->
                IF k = n + 1
                THEN [x |-> centers[Len(centers)].x, y |-> centers[Len(centers)].y,
                      timestamp |-> 10 * n]
                ELSE LET i == (k - 1) \div pointsPerSegment + 1
                         j == (k - 1) % pointsPerSegment
                     IN  [x |-> centers[i].x
                                  + FDiv((centers[i + 1].x - centers[i].x) * j, pointsPerSegment),
                          y |-> centers[i].y
                                  + FDiv((centers[i + 1].y - centers[i].y) * j, pointsPerSegment),
                          timestamp |-> 10 * (k - 1)]]

\* hello, the, at, all, mad, is, to, go, hi, he and words along one row or
\* between neighbouring keys
EstimatorWords ==
    { <<104, 101, 108, 108, 111>>, <<116, 104, 101>>, <<97, 116>>, <<97, 108, 108>>,
      <<109, 97, 100>>, <<105, 115>>, <<116, 111>>, <<103, 111>>, <<104, 105>>, <<104, 101>>,
      <<97, 115>>, <<119, 101>>, <<113, 119>>, <<97, 115, 100>>, <<116, 114, 101, 101>>,
      <<112, 111, 112>>, <<97, 113>>, <<115, 122>>, <<119, 97, 115>>, <<97, 122>>,
      <<97>>, <<97, 97>>, << >>, <<49>>, <<72, 73>>, <<97, 98, 100>>, <<97, 99, 100>>,
      <<97, 98, 98, 100>>, <<100, 99, 98, 97>>, <<98, 99>> }

EstimatorLayouts == {makeQwertyLayout, LayoutA}

PointsPerSegmentInputs == {4, 8}

estEstimateWordLength ==
    /\ Idle
    /\ \E keyboardLayout \in EstimatorLayouts, word \in EstimatorWords,
          pointsPerSegment \in PointsPerSegmentInputs :
         LET rawPath == makePathForWord(keyboardLayout, word, pointsPerSegment)
         IN  call' = [Called("estimateWordLengthByKeyTransitions",
                             [layout |-> keyboardLayout, word |-> word,
                              pointsPerSegment |-> pointsPerSegment, rawPath |-> rawPath])
                        EXCEPT !.value = estimateWordLengthByKeyTransitions(keyboardLayout, rawPath)]
    /\ UNCHANGED <<pathProcessor, idealPathGen, scorer, dictLoader, layout, config,
                   errorCallback, lastError, initialized, requested>>

NextEstimator ==
    \/ estEstimateWordLength
    \/ Return

SpecEstimator == Init /\ [][NextEstimator]_vars

\* the number of keys the letters of word[i..] visit, a key repeated at
\* once counted one time; prevKey is the key of the letter before
RECURSIVE KeyRunsFrom(_, _, _, _)
KeyRunsFrom(keyboardLayout, word, i, prevKey) ==
    IF i > Len(word) THEN 0
    ELSE LET idx == findKeyByCodePoint(keyboardLayout, word[i])
         IN  IF idx < 0 THEN KeyRunsFrom(keyboardLayout, word, i + 1, prevKey)
             ELSE (IF idx # prevKey THEN 1 ELSE 0)
                  + KeyRunsFrom(keyboardLayout, word, i + 1, idx)

\* C19: for the path of makePathForWord on the QWERTY layout of the tests
\* with 8 points per segment, of a word whose letters visit k distinct
\* consecutive keys, the length estimator returns k (4 for "hello").
C19_EstimatorCountsKeys ==
    (/\ call.op = "estimateWordLengthByKeyTransitions"
     /\ call.arg.layout = makeQwertyLayout
     /\ call.arg.pointsPerSegment = 8
     /\ KeyRunsFrom(call.arg.layout, call.arg.word, 1, -1) >= 1) =>
        call.value = KeyRunsFrom(call.arg.layout, call.arg.word, 1, -1) * SCALE

\* the error an engine call has to report, from its arguments and the state
\* it was made in; ErrNONE when it has none to report
ErrorToReport ==
    IF InitCall
    THEN IF ~isValid(call.arg.layout) THEN ErrLAYOUT_INVALID
         ELSE IF ~call.ok THEN dictGetLastError(dictLoader)
         ELSE ErrNONE
    ELSE IF call.op = "recognize"
    THEN IF ~call.pre.initialized THEN ErrENGINE_NOT_INITIALIZED
         ELSE IF Len(call.arg.rawPath) < 2 THEN ErrPATH_TOO_SHORT
         ELSE ErrNONE
    ELSE IF call.op = "updateLayout" /\ call.pre.initialized /\ ~isValid(call.arg.layout)
    THEN ErrLAYOUT_INVALID
    ELSE ErrNONE

\* C20: when init, init_with_data, recognize or update_layout has reported
\* an error, get_last_error() returns it and the error callback, if one is
\* set, has received exactly that code exactly once during the call; when
\* no callback is set, or the operation reported no error, the callback has
\* received nothing.
C20_ErrorsReachCallbackOnce ==
    (InitCall \/ call.op \in {"recognize", "updateLayout"}) =>
        IF ErrorToReport # ErrNONE
        THEN /\ lastError = ErrorToReport
             /\ call.delivered = IF errorCallback THEN <<lastError>> ELSE << >>
        ELSE /\ call.delivered = << >>
             /\ lastError = call.pre.lastError

\* an init that failed on its dictionary has delivered the dictionary's
\* error, which differs from the error stored before
C20_Witness ==
    /\ InitCall
    /\ errorCallback
    /\ lastError \in DictLoadErrors
    /\ call.pre.lastError # lastError
    /\ call.delivered = <<lastError>>


\* C21: in every state reached by init, init_with_data, update_layout,
\* configure, recognize and shutdown calls, an initialized engine has a
\* loaded dictionary store and a valid layout, which is also the layout of
\* the ideal-path generator.
C21_InitializedMeansLoaded ==
    initialized =>
        /\ isLoaded(dictLoader)
        /\ isValid(layout)
        /\ idealPathGen.layoutSet
        /\ idealPathGen.layout = layout

\* C22: a recognize call on an initialized engine with a raw path of 2
\* points or more changes nothing of the engine but the ideal-path cache:
\* the dictionary, the layout, the configuration, the initialized flag and
\* last_error stay, the error callback receives nothing, also when the
\* result is empty; and the candidates are those an engine with an empty
\* cache computes, whatever recognize calls came before.
C22_RecognizeFrame ==
    [][ (Idle /\ call'.op = "recognize" /\ initialized
              /\ Len(call'.arg.rawPath) >= 2) =>
            /\ dictLoader' = dictLoader
            /\ layout' = layout
            /\ config' = config
            /\ scorer' = scorer
            /\ pathProcessor' = pathProcessor
            /\ initialized' = initialized
            /\ lastError' = lastError
            /\ errorCallback' = errorCallback
            /\ call'.delivered = << >>
            /\ idealPathGen'.layout = idealPathGen.layout
            /\ idealPathGen'.layoutSet = idealPathGen.layoutSet
            /\ call'.unsorted =
                   RecognizeScored(pathProcessor, clearCache(idealPathGen), scorer,
                                   dictLoader, layout, config, call'.arg.rawPath).results
      ]_vars

\* a recognize call has returned candidates on an engine whose cache held
\* paths of earlier calls
C22_Witness ==
    /\ call.op = "recognize"
    /\ call.pre.initialized
    /\ Len(call.arg.rawPath) >= 2
    /\ call.pre.cacheSize > 0
    /\ Len(call.results) > 0
    /\ call.delivered = << >>

(***************************************************************************)
(* The banded DTW recurrence on the full matrix, kept as the sequence of   *)
(* its rows: D[i,j] = cost(A[i], B[j]) + min(D[i-1,j], D[i,j-1],           *)
(* D[i-1,j-1]), D[0,0] = cost(A[0], B[0]), a cell with |i - j| > W         *)
(* infinite.  Row i of the matrix is rows[i + 1], cell j of a row row[j].  *)
(***************************************************************************)
Infinite(v) == v >= FLT_MAX

\* cell (i, j) from the rows above and the cells to its left
MatrixCell(g, p, W, rows, row, i, j) ==
    LET up   == IF i > 0 THEN rows[i][j] ELSE FLT_MAX
        left == IF j > 0 THEN row[j - 1] ELSE FLT_MAX
        diag == IF i > 0 /\ j > 0 THEN rows[i][j - 1] ELSE FLT_MAX
        best == Min(up, Min(left, diag))
        cost == pointDistance(g[i + 1], p[j + 1])
    IN  IF Abs(i - j) > W THEN FLT_MAX
        ELSE IF i = 0 /\ j = 0 THEN cost
        ELSE IF Infinite(best) THEN FLT_MAX
        ELSE cost + best

\* one cell added to the row of s = [row, j]
MatrixRowStep(g, p, W, rows, i, s) ==
    [row |-> [s.row EXCEPT ![s.j] = MatrixCell(g, p, W, rows, s.row, i, s.j)],
     j |-> s.j + 1]

\* at most n cells added, from left to right
RECURSIVE MatrixRowLoop(_, _, _, _, _, _, _, _)
MatrixRowLoop(g, p, W, rows, i, s, N, n) ==
    IF s.j >= N \/ n = 0 THEN s
    ELSE IF n = 1 THEN MatrixRowStep(g, p, W, rows, i, s)
    ELSE MatrixRowLoop(g, p, W, rows, i,
                       MatrixRowLoop(g, p, W, rows, i, s, N, n \div 2), N, n - n \div 2)

\* one row added to the matrix of s = [rows, i]
MatrixStep(g, p, W, N, s) ==
    [rows |-> Append(s.rows,
                     MatrixRowLoop(g, p, W, s.rows, s.i,
                                   [row |-> [k \in 0..(N - 1) |-> FLT_MAX], j |-> 0],
                                   N, N).row),
     i |-> s.i + 1]

\* at most n rows added, from top to bottom
RECURSIVE MatrixLoop(_, _, _, _, _, _)
MatrixLoop(g, p, W, N, s, n) ==
    IF s.i >= N \/ n = 0 THEN s
    ELSE IF n = 1 THEN MatrixStep(g, p, W, N, s)
    ELSE MatrixLoop(g, p, W, N, MatrixLoop(g, p, W, N, s, n \div 2), n - n \div 2)

\* D[63,63] / 64 of the recurrence with band width W
FullMatrixDTW(gesture, idealPath, W) ==
    LET N == RESAMPLE_COUNT
        D == MatrixLoop(gesture.points, idealPath.points, W, N,
                        [rows |-> << >>, i |-> 0], N).rows
    IN  IF Infinite(D[N][N - 1]) THEN FLT_MAX ELSE FDiv(D[N][N - 1], N)

\* C23: with the default band ratio 0.10 and 64 points the band width of
\* compute_dtw_distance is 6: the distance is that of the recurrence in
\* which the cells with |i - j| <= 6 take part and the others are infinite.
C23_DefaultBandIsSix ==
    (/\ DtwCall
     /\ scorer.config.dtwBandwidthRatio = DTW_BANDWIDTH_RATIO
     /\ Has64(call.arg.gesture) /\ Has64(call.arg.idealPath)) =>
        call.value = FullMatrixDTW(call.arg.gesture, call.arg.idealPath, 6)

\* C24: for 64-point paths and every band width W >= 1 the two rolling
\* rows of compute_dtw_distance give the value of the banded recurrence on
\* the full matrix, D[63,63] / 64.
C24_RollingRowsAreFullMatrix ==
    (DtwCall /\ Has64(call.arg.gesture) /\ Has64(call.arg.idealPath)) =>
        call.value = FullMatrixDTW(call.arg.gesture, call.arg.idealPath,
                                   BandWidth(scorer.config.dtwBandwidthRatio))

\* two different 64-point paths have been compared with the band of the
\* default ratio, and the distance is finite and not zero
C24_Witness ==
    /\ DtwCall
    /\ Has64(call.arg.gesture) /\ Has64(call.arg.idealPath)
    /\ scorer.config.dtwBandwidthRatio = DTW_BANDWIDTH_RATIO
    /\ call.value > 0
    /\ call.value < FLT_MAX


(***************************************************************************)
(* The engine on a dictionary whose words differ in their first and last   *)
(* letters, in their lengths and in having an ideal path, with gestures    *)
(* between every kind of end keys (keyboard  a b / c d).                   *)
(***************************************************************************)
\* abd, acd, ad, axd, abbbbbd (a..d); ab (a..b); cd, ccd (c..d); a, aa (one key
\* only); ax (one key on the keyboard)
RecWords ==
    <<[word |-> <<97, 98, 100>>, frequency |-> 100],
      [word |-> <<97, 99, 100>>, frequency |-> 60],
      [word |-> <<97, 100>>, frequency |-> 10],
      [word |-> <<97, 120, 100>>, frequency |-> 40],
      [word |-> <<97, 98, 98, 98, 98, 98, 100>>, frequency |-> 30],
      [word |-> <<97, 98>>, frequency |-> 80],
      [word |-> <<99, 100>>, frequency |-> 50],
      [word |-> <<99, 99, 100>>, frequency |-> 70],
      [word |-> <<97>>, frequency |-> 200],
      [word |-> <<97, 97>>, frequency |-> 150],
      [word |-> <<97, 120>>, frequency |-> 20]>>

\* one word with an ideal path, and one without
RecWordsLone ==
    <<[word |-> <<97, 98, 100>>, frequency |-> 100],
      [word |-> <<97, 97, 97, 97, 97, 97, 97>>, frequency |-> 90]>>

RecBuffers == {makeMinimalDict(LangEn, RecWords), makeMinimalDict(LangEn, RecWordsLone)}

\* a to b; c to a; d to b; a to b and back
PathRight == <<Pt(5, 5, 0), Pt(15, 5, 10), Pt(25, 5, 20)>>

PathUp == <<Pt(5, 25, 0), Pt(5, 15, 10), Pt(5, 5, 20)>>

PathUpRight == <<Pt(25, 25, 0), Pt(25, 15, 10), Pt(25, 5, 20)>>

PathRightBack == <<Pt(5, 5, 0), Pt(25, 5, 10), Pt(5, 5, 20)>>

RecRawPaths == ValidRawPaths \cup {PathRight, PathUp, PathUpRight, PathRightBack}

RecMaxCandidates == {MAX_MAX_CANDIDATES}

rcInitWithData ==
    /\ Idle
    /\ \E dictData \in RecBuffers :
           InitBody(Called("initWithData", [layout |-> LayoutA, dictData |-> dictData]),
                    LayoutA, loadFromMemory(dictLoader, dictData))

rcRecognize ==
    /\ Idle
    /\ \E rawPath \in RecRawPaths :
         \E maxCandidates \in RecMaxCandidates : RecognizeBody(rawPath, maxCandidates)

NextRec ==
    \/ rcInitWithData
    \/ rcRecognize
    \/ configure
    \/ Return

SpecRec == Init /\ [][NextRec]_vars

\* a recognize call that passed validation has returned
RecognizeCall ==
    /\ call.op = "recognize"
    /\ call.pre.initialized
    /\ Len(call.arg.rawPath) >= 2

\* the lower-case letter of the key nearest to a raw point, 0 when that key
\* is no ASCII letter or there is no key
NearestLetter(point) ==
    LET key == findNearestKey(layout, point.x, point.y)
    IN  IF key < 0 THEN 0 ELSE KeyChar(layout, key)

StartLetter == NearestLetter(call.arg.rawPath[1])

EndLetter == NearestLetter(call.arg.rawPath[Len(call.arg.rawPath)])

StartsWith(word, c) == Len(word) > 0 /\ ToLower(word[1]) = c

EndsWith(word, c) == Len(word) > 0 /\ ToLower(word[Len(word)]) = c

\* the entries recognize selects, as indexes into the loaded dictionary
SelectedEntries ==
    LET entries == getAllEntries(dictLoader)
        both  == IF StartLetter # 0 /\ EndLetter # 0
                 THEN {i \in 1..Len(entries) : /\ StartsWith(entries[i].word, StartLetter)
                                                /\ EndsWith(entries[i].word, EndLetter)}
                 ELSE {}
        start == IF StartLetter # 0
                 THEN {i \in 1..Len(entries) : StartsWith(entries[i].word, StartLetter)}
                 ELSE {}
    IN  IF both # {} THEN both
        ELSE IF start # {} THEN start
        ELSE 1..Len(entries)

\* C25: the candidates of recognize are words of the first non-empty list
\* among: the entries with the start and the end letter, when the nearest
\* keys of both raw end points are letters; the entries with the start
\* letter; all entries.  So with an entry from s to e in the dictionary
\* every candidate starts with s and ends with e, and every candidate is
\* the word of a loaded entry.
C25_CandidatesFromFirstList ==
    RecognizeCall =>
        LET entries == getAllEntries(dictLoader)
        IN  /\ \A k \in 1..Len(call.results) :
                  \E i \in SelectedEntries : entries[i].word = call.results[k].word
            /\ (/\ StartLetter # 0 /\ EndLetter # 0
                /\ \E i \in 1..Len(entries) : /\ StartsWith(entries[i].word, StartLetter)
                                                /\ EndsWith(entries[i].word, EndLetter)) =>
                   \A k \in 1..Len(call.results) :
                       /\ StartsWith(call.results[k].word, StartLetter)
                       /\ EndsWith(call.results[k].word, EndLetter)

\* candidates have been returned from a dictionary that also has words
\* with the start letter and another end letter
C25_Witness ==
    /\ RecognizeCall
    /\ Len(call.results) > 1
    /\ StartLetter # 0 /\ EndLetter # 0
    /\ \E i \in 1..Len(dictLoader.entries) :
          /\ StartsWith(dictLoader.entries[i].word, StartLetter)
          /\ ~EndsWith(dictLoader.entries[i].word, EndLetter)
    /\ \A k \in 1..Len(call.results) : EndsWith(call.results[k].word, EndLetter)

\* the number of changes of the nearest key along the raw points of the
\* call, the first point counted as a change
KeyChanges ==
    LET raw == call.arg.rawPath
        nearest(i) == findNearestKey(layout, raw[i].x, raw[i].y)
    IN  Cardinality({i \in 1..Len(raw) : i = 1 \/ nearest(i) # nearest(i - 1)})

\* the length of a word is within the tolerance of the estimate
WithinTolerance(word) ==
    Abs(Len(word) * SCALE - KeyChanges * SCALE) <= config.lengthFilterTolerance

C26_Fallback ==
    /\ RecognizeCall
    /\ Len(call.results) > 0
    /\ \A i \in SelectedEntries : ~WithinTolerance(getAllEntries(dictLoader)[i].word)

\* the keys of the letters of a word that the layout has, in order
MappedKeys(word) ==
    SelectSeq([i \in 1..Len(word) |-> findKeyByCodePoint(layout, ToLower(word[i]))],
              LAMBDA key : key >= 0)

\* the number of key centres of a word: its mapped keys, a key equal to
\* the one before left out
KeyCenters(word) ==
    LET keys == MappedKeys(word)
    IN  Cardinality({i \in 1..Len(keys) : i = 1 \/ keys[i] # keys[i - 1]})

\* C27: a word has an ideal path exactly when its letters, lower-cased,
\* mapped to their keys, unmapped letters and immediate repetitions of a
\* key left out, give 2 key centres or more; and recognize never returns
\* a word without an ideal path.
C27_NoPathNoCandidate ==
    RecognizeCall =>
        /\ \A k \in 1..Len(call.results) : KeyCenters(call.results[k].word) >= 2
        /\ \A word \in DOMAIN idealPathGen.cache :
               PathIsValid(idealPathGen.cache[word]) <=> KeyCenters(word) >= 2

\* candidates have been returned, and the words of one letter, of one
\* repeated letter and of one mapped letter were looked up and left out
C27_Witness ==
    /\ RecognizeCall
    /\ Len(call.results) > 0
    /\ {<<97>>, <<97, 97>>, <<97, 120>>} \subseteq DOMAIN idealPathGen.cache
    /\ \A k \in 1..Len(call.results) :
          call.results[k].word \notin {<<97>>, <<97, 97>>, <<97, 120>>}

\* The candidates a recognize call scored are call.unsorted; their DTW
\* distances are the dtwScore fields.
ScoredDTWs == {call.unsorted[k].dtwScore : k \in 1..Len(call.unsorted)}

LargestDTW == CHOOSE d \in ScoredDTWs : \A e \in ScoredDTWs : e <= d

SmallestDTW == CHOOSE d \in ScoredDTWs : \A e \in ScoredDTWs : d <= e

\* the weight of the frequency for the candidates of the call
AlphaEff ==
    LET alpha == config.frequencyWeight
        rawRange == LargestDTW - SmallestDTW
    IN  IF Len(call.unsorted) >= 2 /\ rawRange < SCALE \div 2
        THEN FMul(alpha, Max(SCALE \div 10, FDiv(rawRange * SCALE, SCALE \div 2)))
        ELSE alpha

\* the confidence of a candidate whose normalized DTW distance is normDTW
ConfidenceAt(candidate, normDTW) ==
    LET normFreq == Min(SCALE, candidate.frequencyScore)
        score == FMul(SCALE - AlphaEff, normDTW) + FMul(AlphaEff, SCALE - normFreq)
    IN  SCALE - Max(0, Min(SCALE, score))

\* C28: a lone scored candidate with a DTW distance d below max_dtw_floor
\* has the confidence of norm_dtw = d / max_dtw_floor; among two scored
\* candidates or more, one with the largest DTW distance, when that is at
\* least 0.01, has the confidence of norm_dtw = 1.
C28_MaxDtwByCandidateCount ==
    (RecognizeCall /\ Len(call.unsorted) > 0) =>
        LET u == call.unsorted
        IN  /\ (Len(u) = 1 /\ u[1].dtwScore < config.maxDTWFloor) =>
                   u[1].confidence =
                       ConfidenceAt(u[1], FDiv(u[1].dtwScore * SCALE, config.maxDTWFloor))
            /\ Len(u) >= 2 =>
                   \A k \in 1..Len(u) :
                       (u[k].dtwScore = LargestDTW /\ LargestDTW >= SCALE \div 100) =>
                           u[k].confidence = ConfidenceAt(u[k], SCALE)

\* a lone candidate with a distance below the floor has been scored with a
\* normalized distance below 1
C28_Witness ==
    /\ RecognizeCall
    /\ Len(call.unsorted) = 1
    /\ call.unsorted[1].dtwScore > 0
    /\ call.unsorted[1].dtwScore < config.maxDTWFloor
    /\ call.unsorted[1].confidence > ConfidenceAt(call.unsorted[1], SCALE)

\* the largest distance of several candidates is below the floor of the
\* lone candidate and was normalized to 1
C28_WitnessSeveral ==
    /\ RecognizeCall
    /\ Len(call.unsorted) >= 2
    /\ LargestDTW >= SCALE \div 100
    /\ LargestDTW < config.maxDTWFloor


\* the normalization constant of the DTW distances of the call
MaxDtwOfCall ==
    IF Len(call.unsorted) <= 1 THEN Max(LargestDTW, config.maxDTWFloor)
    ELSE Max(LargestDTW, SCALE \div 100)

\* C29: with two scored candidates or more and raw_range = raw_max_dtw -
\* min_dtw below 0.5, every candidate of the call has the confidence of
\* alpha_eff = alpha * max(0.1, raw_range / 0.5), and of alpha_eff = alpha
\* otherwise; alpha_eff lies between 0.1 * alpha and alpha.
C29_AdaptiveFrequencyWeight ==
    (RecognizeCall /\ Len(call.unsorted) > 0) =>
        /\ \A k \in 1..Len(call.unsorted) :
             LET c == call.unsorted[k]
                 normDTW == IF MaxDtwOfCall > 0
                            THEN Min(SCALE, FDiv(c.dtwScore * SCALE, MaxDtwOfCall))
                            ELSE SCALE
             IN  c.confidence = ConfidenceAt(c, normDTW)
        /\ AlphaEff <= config.frequencyWeight
        /\ AlphaEff >= FMul(config.frequencyWeight, SCALE \div 10)
        /\ (Len(call.unsorted) = 1 \/ LargestDTW - SmallestDTW >= SCALE \div 2) =>
               AlphaEff = config.frequencyWeight

\* several candidates of nearly the same distance have been scored with
\* the weight 0.1 * alpha, and the frequency decided between them
C29_Witness ==
    /\ RecognizeCall
    /\ Len(call.unsorted) >= 2
    /\ LargestDTW - SmallestDTW < SCALE \div 20
    /\ AlphaEff = FMul(config.frequencyWeight, SCALE \div 10)
    /\ \E j, k \in 1..Len(call.unsorted) :
          call.unsorted[j].confidence # call.unsorted[k].confidence

\* several candidates have been scored with a weight between 0.1 * alpha
\* and alpha
C29_WitnessBetween ==
    /\ RecognizeCall
    /\ Len(call.unsorted) >= 2
    /\ AlphaEff > FMul(config.frequencyWeight, SCALE \div 10)
    /\ AlphaEff < config.frequencyWeight

\* several candidates with a range of 0.5 or more have been scored with alpha
C29_WitnessWide ==
    /\ RecognizeCall
    /\ Len(call.unsorted) >= 2
    /\ LargestDTW - SmallestDTW >= SCALE \div 2


\* C30: init and init_with_data in any state, and update_layout on an
\* initialized engine, given an invalid layout return false, record
\* LAYOUT_INVALID and change nothing else; update_layout on an engine that
\* is not initialized returns false and changes nothing.
C30_InvalidLayoutChangesNothing ==
    [][(Idle /\ call'.op \in {"init", "initWithData", "updateLayout"}) =>
         /\ (/\ ~isValid(call'.arg.layout)
             /\ call'.op = "updateLayout" => initialized) =>
                /\ ~call'.ok
                /\ lastError' = ErrLAYOUT_INVALID
                /\ UNCHANGED <<pathProcessor, idealPathGen, scorer, dictLoader, layout,
                               config, errorCallback, initialized>>
         /\ (call'.op = "updateLayout" /\ ~initialized) =>
                /\ ~call'.ok
                /\ UNCHANGED <<pathProcessor, idealPathGen, scorer, dictLoader, layout,
                               config, errorCallback, initialized, lastError>>]_vars

\* an initialized engine with a loaded dictionary and cached ideal paths
\* has refused a layout of character keys and no positive size
C30_Witness ==
    /\ call.op \in {"init", "initWithData"}
    /\ call.arg.layout \in {LayoutNoWidth, LayoutNegativeHeight}
    /\ ~call.ok
    /\ call.pre.initialized
    /\ call.pre.cacheSize > 0
    /\ initialized
    /\ isLoaded(dictLoader)
    /\ cacheSize(idealPathGen) > 0
    /\ lastError = ErrLAYOUT_INVALID

\* update_layout has refused an invalid layout on an initialized engine
C30_WitnessUpdate ==
    /\ call.op = "updateLayout"
    /\ ~isValid(call.arg.layout)
    /\ call.pre.initialized
    /\ call.pre.lastError # ErrLAYOUT_INVALID
    /\ lastError = ErrLAYOUT_INVALID

\* update_layout has been refused on an engine that is not initialized
C30_WitnessNotInitialized ==
    /\ call.op = "updateLayout"
    /\ ~call.pre.initialized
    /\ ~call.ok

=============================================================================
